---- MODULE Spec2Model ----
(***************************************************************************)
(* A model of the web-scales client: the date pipeline of the product      *)
(* edit form (maskDDMMYY, parseDDMMYY), the React Query key builders and   *)
(* the cache-invalidation convention of the device pages.                  *)
(*                                                                         *)
(* Strings are sequences of one-character strings.  A calendar date is the *)
(* number of whole days since 1970-01-01 UTC: every Date the code builds   *)
(* is a UTC midnight, so its time value is that number times 86400000.    *)
(***************************************************************************)
EXTENDS Integers, Sequences, FiniteSets, TLC

VARIABLES
    visits,     \* the changes of page still to come
    mode,       \* which part of the program the behaviour exercises
    arg,        \* pure functions: the argument of the call
    res,        \* pure functions: what the call returned
    build,      \* which variant of the pages is deployed
    token,      \* TRUE while a token is stored (utils/token)
    route,      \* "boot", "auth", "list" (DevicesPage) or "detail" (DeviceDetailPage)
    srv,        \* the server's data version: the number of writes it has applied
    cache,      \* the React Query cache: one entry per query key
    muts,       \* the mutations issued so far, by instance number
    toast       \* the toast of the mounted page

vars == <<visits, mode, arg, res, build, token, route, srv, cache, muts, toast>>

pureVars == <<mode, arg, res>>
pageVars == <<build, token, route, srv, cache, muts, toast>>

-----------------------------------------------------------------------------
(* Bounds of the model. *)

\* longest raw text given to maskDDMMYY
MaxMaskLen == 7
\* longest free-form text given to parseDDMMYY
MaxParseLen == 9
\* largest day and month number of a DD-MM-YY text given to parseDDMMYY
MaxDay == 32
MaxMonth == 13
\* largest device id the server hands out
MaxDeviceId == 40
\* mutations issued in one behaviour
MaxMut == 2
\* changes of page in one behaviour
MaxNav == 1

-----------------------------------------------------------------------------
(* Characters and strings. *)

Digits == <<"0", "1", "2", "3", "4", "5", "6", "7", "8", "9">>

DigitChars == {Digits[i] : i \in 1..10}

IsDigit(c) == c \in DigitChars

\* the value of a digit character
DigitVal(c) == (CHOOSE i \in 1..10 : Digits[i] = c) - 1

\* String.prototype.trim is applied to texts whose only white space is " "
IsSpace(c) == c = " "

\* all strings over the alphabet A of length at most n
StringsUpTo(A, n) == UNION {[1..k -> A] : k \in 0..n}

\* s.slice(a, b) of JavaScript for 0 <= a <= b (indices from 0, b excluded)
Slice(s, a, b) == SubSeq(s, a + 1, IF b < Len(s) THEN b ELSE Len(s))

\* s.replace(/\D/g, "")
RECURSIVE StripNonDigits(_)
StripNonDigits(s) ==
    IF s = <<>> THEN <<>>
    ELSE IF IsDigit(Head(s)) THEN <<Head(s)>> \o StripNonDigits(Tail(s))
         ELSE StripNonDigits(Tail(s))

\* String.prototype.trim
RECURSIVE TrimLeft(_)
TrimLeft(s) ==
    IF s # <<>> /\ IsSpace(Head(s)) THEN TrimLeft(Tail(s)) ELSE s

RECURSIVE TrimRight(_)
TrimRight(s) ==
    IF s # <<>> /\ IsSpace(s[Len(s)]) THEN TrimRight(SubSeq(s, 1, Len(s) - 1)) ELSE s

Trim(s) == TrimRight(TrimLeft(s))

-----------------------------------------------------------------------------
(* maskDDMMYY *)

\* a mask that puts the second '-' as soon as four digits are there
maskDDMMYY_EagerDash(raw) ==
    LET digits == Slice(StripNonDigits(raw), 0, 6)
        dd == Slice(digits, 0, 2)
        mm == Slice(digits, 2, 4)
        yy == Slice(digits, 4, 6)
    IN  IF Len(digits) <= 2 THEN dd
        ELSE IF Len(digits) < 4 THEN dd \o <<"-">> \o mm
        ELSE dd \o <<"-">> \o mm \o <<"-">> \o yy

\* a mask that cuts the raw text to six characters before it strips it
maskDDMMYY_TruncateFirst(raw) ==
    LET digits == StripNonDigits(Slice(raw, 0, 6))
        dd == Slice(digits, 0, 2)
        mm == Slice(digits, 2, 4)
        yy == Slice(digits, 4, 6)
    IN  IF Len(digits) <= 2 THEN dd
        ELSE IF Len(digits) <= 4 THEN dd \o <<"-">> \o mm
        ELSE dd \o <<"-">> \o mm \o <<"-">> \o yy

maskDDMMYY(raw) ==
    LET digits == Slice(StripNonDigits(raw), 0, 6)
        dd == Slice(digits, 0, 2)
        mm == Slice(digits, 2, 4)
        yy == Slice(digits, 4, 6)
    IN  IF Len(digits) <= 2 THEN dd
        ELSE IF Len(digits) <= 4 THEN dd \o <<"-">> \o mm
        ELSE dd \o <<"-">> \o mm \o <<"-">> \o yy

-----------------------------------------------------------------------------
(* parseDDMMYY, with the Date arithmetic of ECMAScript it relies on. *)

\* ECMAScript DaysInYear
DaysInYear(y) ==
    IF y % 4 # 0 THEN 365
    ELSE IF y % 100 # 0 THEN 366
    ELSE IF y % 400 # 0 THEN 365
    ELSE 366

\* ECMAScript DayFromYear: the day number of 1 January of year y
DayFromYear(y) ==
    365 * (y - 1970) + ((y - 1969) \div 4) - ((y - 1901) \div 100)
        + ((y - 1601) \div 400)

\* the day within the year on which month mn (0..11) starts
MonthStart(mn, leap) ==
    LET l == IF leap THEN 1 ELSE 0
    IN  CASE mn = 0 -> 0
          [] mn = 1 -> 31
          [] mn = 2 -> 59 + l
          [] mn = 3 -> 90 + l
          [] mn = 4 -> 120 + l
          [] mn = 5 -> 151 + l
          [] mn = 6 -> 181 + l
          [] mn = 7 -> 212 + l
          [] mn = 8 -> 243 + l
          [] mn = 9 -> 273 + l
          [] mn = 10 -> 304 + l
          [] mn = 11 -> 334 + l
          [] OTHER -> 365 + l

\* ECMAScript MakeDay: month and date outside their ranges roll over
MakeDay(year, month, date) ==
    LET ym == year + (month \div 12)
        mn == month % 12
    IN  DayFromYear(ym) + MonthStart(mn, DaysInYear(ym) = 366) + date - 1

\* Date.UTC(y, m, d, 0, 0, 0), in days
DateUTC(year, month, date) == MakeDay(year, month, date)

\* ECMAScript YearFromTime
RECURSIVE YearFrom(_, _)
YearFrom(y, day) == IF DayFromYear(y + 1) <= day THEN YearFrom(y + 1, day) ELSE y

getUTCFullYear(day) == YearFrom(1970 + (day \div 366), day)

\* ECMAScript MonthFromTime
getUTCMonth(day) ==
    LET y == getUTCFullYear(day)
        within == day - DayFromYear(y)
        leap == DaysInYear(y) = 366
    IN  CHOOSE mn \in 0..11 :
            MonthStart(mn, leap) <= within /\ within < MonthStart(mn + 1, leap)

\* ECMAScript DateFromTime
getUTCDate(day) ==
    LET y == getUTCFullYear(day)
        within == day - DayFromYear(y)
    IN  within - MonthStart(getUTCMonth(day), DaysInYear(y) = 366) + 1

\* Number(m[i]) of a text of two digits
TwoDigits(s) == 10 * DigitVal(s[1]) + DigitVal(s[2])

\* str.match(/^(\d{2})-(\d{2})-(\d{2})$/) succeeds
MatchesDDMMYY(str) ==
    /\ Len(str) = 8
    /\ \A i \in {1, 2, 4, 5, 7, 8} : IsDigit(str[i])
    /\ str[3] = "-"
    /\ str[6] = "-"

NullDate == [ok |-> FALSE, day |-> 0]

\* a parse that trusts the Date constructor and leaves out the rollover check
parseDDMMYY_NoRollCheck(s) ==
    IF s = <<>> THEN NullDate
    ELSE LET str == Trim(s)
         IN  IF ~MatchesDDMMYY(str) THEN NullDate
             ELSE LET dd == TwoDigits(SubSeq(str, 1, 2))
                      mm == TwoDigits(SubSeq(str, 4, 5))
                      yy == TwoDigits(SubSeq(str, 7, 8)) + 2000
                  IN  [ok |-> TRUE, day |-> DateUTC(yy, mm - 1, dd)]

\* a parse whose pattern is not anchored at the end of the text
parseDDMMYY_Unanchored(s) ==
    IF s = <<>> THEN NullDate
    ELSE LET str == Trim(s)
         IN  IF Len(str) < 8 \/ ~MatchesDDMMYY(SubSeq(str, 1, 8)) THEN NullDate
             ELSE LET dd == TwoDigits(SubSeq(str, 1, 2))
                      mm == TwoDigits(SubSeq(str, 4, 5))
                      yy == TwoDigits(SubSeq(str, 7, 8)) + 2000
                      d == DateUTC(yy, mm - 1, dd)
                  IN  IF \/ getUTCFullYear(d) # yy
                         \/ getUTCMonth(d) # mm - 1
                         \/ getUTCDate(d) # dd
                      THEN NullDate
                      ELSE [ok |-> TRUE, day |-> d]

parseDDMMYY(s) ==
    IF s = <<>> THEN NullDate
    ELSE LET str == Trim(s)
         IN  IF ~MatchesDDMMYY(str) THEN NullDate
             ELSE LET dd == TwoDigits(SubSeq(str, 1, 2))
                      mm == TwoDigits(SubSeq(str, 4, 5))
                      yy == TwoDigits(SubSeq(str, 7, 8)) + 2000
                      d == DateUTC(yy, mm - 1, dd)
                  IN  IF \/ getUTCFullYear(d) # yy
                         \/ getUTCMonth(d) # mm - 1
                         \/ getUTCDate(d) # dd
                      THEN NullDate
                      ELSE [ok |-> TRUE, day |-> d]

-----------------------------------------------------------------------------
(* Values the page variables hold while a pure function is exercised. *)

PagesUnused ==
    /\ visits = 0
    /\ build = "none"
    /\ token = FALSE
    /\ route = "none"
    /\ srv = 0
    /\ cache = <<>>
    /\ muts = <<>>
    /\ toast = <<>>

-----------------------------------------------------------------------------
(* The date input of the edit form: openEdit and onChange put            *)
(* maskDDMMYY(text) into the field, onBlur masks the field's value again. *)

MaskAlphabet == {"0", "1", "2", "6", "-"}

Unset == <<"unset">>

MaskInit ==
    /\ mode = "mask"
    /\ arg = <<>>
    /\ res = [shown |-> maskDDMMYY(<<>>), blurred |-> Unset]
    /\ PagesUnused

\* the text handed to the mask grows by one character; the handler masks it
MaskChange(c) ==
    /\ Len(arg) < MaxMaskLen
    /\ arg' = Append(arg, c)
    /\ res' = [shown |-> maskDDMMYY(arg'), blurred |-> Unset]
    /\ UNCHANGED <<visits, mode, pageVars>>

\* onBlur: the field's value is masked again
MaskBlur ==
    /\ res.blurred = Unset
    /\ res' = [res EXCEPT !.blurred = maskDDMMYY(res.shown)]
    /\ UNCHANGED <<visits, mode, arg, pageVars>>

MaskNext == (\E c \in MaskAlphabet : MaskChange(c)) \/ MaskBlur

SpecMask == MaskInit /\ [][MaskNext]_vars

\* C7: masking an already masked text changes nothing: the value onBlur puts
\* into the field is the value the field held
C7_MaskIdempotent == res.blurred # Unset => res.blurred = res.shown

C7_Witness ==
    /\ arg = <<"0", "1", "-", "-", "0", "1", "2">>
    /\ res.shown = <<"0", "1", "-", "0", "1", "-", "2">>
    /\ res.blurred = res.shown

\* the positions of the digit characters of s
DigitPositions(s) == {i \in 1..Len(s) : IsDigit(s[i])}

\* the n-th digit character of s, counted from 1
NthDigit(s, n) ==
    LET i == CHOOSE i \in DigitPositions(s) :
                Cardinality({j \in DigitPositions(s) : j <= i}) = n
    IN  s[i]

\* C8: the masked text is the first at most six digits of the input in their
\* order, with '-' after the 2nd digit when there is a 3rd and after the 4th
\* when there is a 5th, and nothing else
C8_MaskShape ==
    LET n == Cardinality(DigitPositions(arg))
        d == IF n < 6 THEN n ELSE 6
        dashes == (IF d >= 3 THEN 1 ELSE 0) + (IF d >= 5 THEN 1 ELSE 0)
        out == res.shown
        \* the place in out of the k-th digit
        place(k) == k + (IF k >= 3 THEN 1 ELSE 0) + (IF k >= 5 THEN 1 ELSE 0)
    IN  /\ Len(out) = d + dashes
        /\ \A k \in 1..d : out[place(k)] = NthDigit(arg, k)
        /\ d >= 3 => out[3] = "-"
        /\ d >= 5 => out[6] = "-"
        /\ arg = <<"0", "1", "0", "1", "2", "6", "0">>
              => out = <<"0", "1", "-", "0", "1", "-", "2", "6">>
        /\ arg = <<"0", "1">> => out = <<"0", "1">>
        /\ arg = <<>> => out = <<>>

C8_Witness ==
    /\ arg = <<"0", "1", "0", "1", "2", "6", "0">>
    /\ res.shown = <<"0", "1", "-", "0", "1", "-", "2", "6">>

-----------------------------------------------------------------------------
(* parseDDMMYY applied to a text: a sell-by date of a product received     *)
(* from the server (computeStatus) or the value of a date field.           *)

ParseAlphabet == {"1", "-", " ", "x"}

Fmt2(n) == <<Digits[(n \div 10) + 1], Digits[(n % 10) + 1]>>

\* the text DD-MM-YY of three numbers below 100
FmtDDMMYY(dd, mm, yy) == Fmt2(dd) \o <<"-">> \o Fmt2(mm) \o <<"-">> \o Fmt2(yy)

\* the texts in the form DD-MM-YY
DateTexts ==
    {FmtDDMMYY(dd, mm, yy) : dd \in 0..MaxDay, mm \in 0..MaxMonth, yy \in 0..99}

\* the first and the second half of a free text
Heads == StringsUpTo(ParseAlphabet, MaxParseLen \div 2)
Tails == StringsUpTo(ParseAlphabet, MaxParseLen - (MaxParseLen \div 2))

NotCalled == <<>>

ParseInit ==
    /\ mode = "parse"
    /\ \/ arg \in DateTexts
       \/ \E head \in Heads, tail \in Tails : arg = head \o tail
    /\ res = NotCalled
    /\ PagesUnused

ParseCall ==
    /\ res = NotCalled
    /\ res' = <<parseDDMMYY(arg)>>
    /\ UNCHANGED <<visits, mode, arg, pageVars>>

ParseNext == ParseCall

SpecParse == ParseInit /\ [][ParseNext]_vars

\* the calendar, stated without the Date arithmetic
IsLeapYear(y) == (y % 4 = 0 /\ y % 100 # 0) \/ y % 400 = 0

DaysInMonth(m, y) ==
    IF m \in {4, 6, 9, 11} THEN 30
    ELSE IF m = 2 THEN (IF IsLeapYear(y) THEN 29 ELSE 28)
    ELSE 31

\* the days of the years 1970..y-1
DaysBeforeYear(y) ==
    365 * (y - 1970) + Cardinality({k \in 1970..(y - 1) : IsLeapYear(k)})

RECURSIVE DaysBeforeMonth(_, _)
DaysBeforeMonth(m, y) ==
    IF m <= 1 THEN 0 ELSE DaysBeforeMonth(m - 1, y) + DaysInMonth(m - 1, y)

\* the day number of UTC midnight of day d, month m, year y
CalendarDay(y, m, d) == DaysBeforeYear(y) + DaysBeforeMonth(m, y) + d - 1

\* C9: for a text DD-MM-YY parse returns a date exactly when MM is in 01..12
\* and DD is in 01..(days of month MM of year 2000+YY), the date being UTC
\* midnight of that day; every rolled-over combination gives null
C9_ParseCalendar ==
    (res # NotCalled /\ MatchesDDMMYY(arg)) =>
        LET dd == TwoDigits(SubSeq(arg, 1, 2))
            mm == TwoDigits(SubSeq(arg, 4, 5))
            yy == 2000 + TwoDigits(SubSeq(arg, 7, 8))
            valid == mm \in 1..12 /\ dd \in 1..DaysInMonth(mm, yy)
        IN  /\ res[1].ok <=> valid
            /\ res[1].ok => res[1].day = CalendarDay(yy, mm, dd)
            /\ arg = FmtDDMMYY(31, 2, 26) => ~res[1].ok
            /\ arg = FmtDDMMYY(0, 1, 26) => ~res[1].ok
            /\ arg = FmtDDMMYY(1, 1, 26) => res[1].ok

C9_Witness ==
    /\ arg = FmtDDMMYY(29, 2, 24)
    /\ res # NotCalled
    /\ res[1].ok
    /\ res[1].day = CalendarDay(2024, 2, 29)

\* C10 as stated: parse returns null for every text that is not exactly two
\* digits, '-', two digits, '-', two digits
C10_ParseExactOnly ==
    (res # NotCalled /\ ~MatchesDDMMYY(arg)) => ~res[1].ok

\* the text is a DD-MM-YY text with white space before and after it
IsPaddedDDMMYY(s) ==
    \E a \in 0..Len(s), b \in 0..Len(s) :
        /\ a <= b
        /\ \A i \in 1..a : IsSpace(s[i])
        /\ \A i \in (b + 1)..Len(s) : IsSpace(s[i])
        /\ MatchesDDMMYY(SubSeq(s, a + 1, b))

\* C10, amended: parse returns null for every text that, white space at its
\* two ends apart, is not exactly two digits, '-', two digits, '-', two
\* digits; the empty text gives null
C10_ParseExactAfterTrim ==
    res # NotCalled =>
        /\ ~IsPaddedDDMMYY(arg) => ~res[1].ok
        /\ arg = <<>> => ~res[1].ok

C10_Witness ==
    /\ arg = <<"1", "1", "-", "1", "1", "-", "1", "1", "1">>
    /\ res = <<NullDate>>

-----------------------------------------------------------------------------
(* JavaScript values of a device id, Number(), String() and the query keys. *)

JsNumber(n) == [t |-> "number", n |-> n, s |-> <<>>]
JsString(str) == [t |-> "string", n |-> 0, s |-> str]
JsNaN == [t |-> "NaN", n |-> 0, s |-> <<>>]
JsNull == [t |-> "null", n |-> 0, s |-> <<>>]

\* the decimal digits of a natural number: String(n), `${n}`
RECURSIVE DecimalText(_)
DecimalText(n) ==
    IF n < 10 THEN <<Digits[n + 1]>>
    ELSE Append(DecimalText(n \div 10), Digits[(n % 10) + 1])

\* the value of a text of decimal digits
RECURSIVE DecimalValue(_)
DecimalValue(str) ==
    IF str = <<>> THEN 0
    ELSE 10 * DecimalValue(SubSeq(str, 1, Len(str) - 1)) + DigitVal(str[Len(str)])

\* String(v) for the values an id takes
ToJsString(v) == IF v.t = "number" THEN JsString(DecimalText(v.n)) ELSE v

\* Number(v): a number is kept; a text is trimmed, "" is 0, decimal digits
\* are their value and every other text is NaN
Number(v) ==
    IF v.t = "string"
    THEN LET str == Trim(v.s)
         IN  IF \A i \in 1..Len(str) : IsDigit(str[i])
             THEN JsNumber(DecimalValue(str))
             ELSE JsNaN
    ELSE v

\* a key builder that leaves the id as it was given
qk_device_Uncoerced(deviceId) == <<JsString(<<"device">>), deviceId>>

qk_devices == <<JsString(<<"devices">>)>>
qk_device(deviceId) == <<JsString(<<"device">>), Number(deviceId)>>
qk_productsCached(deviceId) == <<JsString(<<"productsCached">>), Number(deviceId)>>
qk_autoUpdate(deviceId) == <<JsString(<<"autoUpdate">>), Number(deviceId)>>

\* React Query compares keys by their JSON text, in which NaN is null
hashKey(key) == [i \in 1..Len(key) |-> IF key[i].t = "NaN" THEN JsNull ELSE key[i]]

\* the keys DeviceDetailPage registers its three queries under
RegisteredKeys(b, deviceId) ==
    IF b = "grouped"
    THEN [device |-> qk_device(deviceId),
          productsCached |-> qk_productsCached(deviceId),
          autoUpdate |-> qk_autoUpdate(deviceId)]
    ELSE [device |-> <<JsString(<<"device">>), deviceId>>,
          productsCached |-> <<JsString(<<"productsCached">>), deviceId>>,
          autoUpdate |-> <<JsString(<<"autoUpdate">>), deviceId>>]

\* the keys a successful mutation of DeviceDetailPage invalidates
invalidateDeviceProducts(deviceId) ==
    LET id == Number(deviceId)
    IN  <<qk_productsCached(id), qk_device(id), qk_devices>>

invalidateDeviceAutoUpdate(deviceId) ==
    LET id == Number(deviceId)
    IN  <<qk_autoUpdate(id), qk_device(id), qk_devices>>

InvalidatedKeys(b, group, deviceId) ==
    IF b = "grouped"
    THEN IF group = "products" THEN invalidateDeviceProducts(deviceId)
         ELSE invalidateDeviceAutoUpdate(deviceId)
    ELSE IF group = "products"
         THEN <<<<JsString(<<"productsCached">>), deviceId>>,
                <<JsString(<<"device">>), deviceId>>>>
         ELSE <<<<JsString(<<"autoUpdate">>), deviceId>>>>

\* The variants of the two pages found in the sources:
\*   "legacy"  DevicesPage of part_002 (first file) and DeviceDetailPage.jsx:
\*             direct qc.invalidateQueries calls, none awaited
\*   "named"   DevicesPage.jsx, which awaits its direct call, and
\*             DeviceDetailPage.jsx, which awaits none
\*   "grouped" DevicesPage of part_002 (second file) and DeviceDetailPage of
\*             part_001: the awaited invalidation groups of part_003
Builds == {"legacy", "named", "grouped"}

KeysInit ==
    /\ mode = "keys"
    /\ arg \in 1..MaxDeviceId
    /\ res = [stage |-> "list"]
    /\ visits = 0
    /\ build \in Builds
    /\ token = FALSE
    /\ route = "none"
    /\ srv = 0
    /\ cache = <<>>
    /\ muts = <<>>
    /\ toast = <<>>

\* the key builders are called with the id as a number and as its text
KeysBuild ==
    /\ res.stage = "list"
    /\ res' = [stage |-> "built",
               fromNumber |-> <<qk_device(JsNumber(arg)),
                                qk_productsCached(JsNumber(arg)),
                                qk_autoUpdate(JsNumber(arg))>>,
               fromText |-> <<qk_device(ToJsString(JsNumber(arg))),
                              qk_productsCached(ToJsString(JsNumber(arg))),
                              qk_autoUpdate(ToJsString(JsNumber(arg)))>>]
    /\ UNCHANGED <<visits, mode, arg, pageVars>>

\* DevicesPage navigates to `/devices/${d.id}`; DeviceDetailPage reads the
\* route parameter, a text, sets deviceId = Number(id) and registers its queries
KeysOpen ==
    /\ res.stage \in {"list", "built"}
    /\ LET id == ToJsString(JsNumber(arg))
           deviceId == Number(id)
       IN  res' = [stage |-> "open",
                   deviceId |-> deviceId,
                   registered |-> RegisteredKeys(build, deviceId)]
    /\ UNCHANGED <<visits, mode, arg, pageVars>>

\* a mutation of the page succeeds and invalidates its group
KeysInvalidate(group) ==
    /\ res.stage = "open"
    /\ res' = [stage |-> "invalidated",
               group |-> group,
               registered |-> res.registered,
               invalidated |-> InvalidatedKeys(build, group, res.deviceId)]
    /\ UNCHANGED <<visits, mode, arg, pageVars>>

KeysNext ==
    \/ KeysBuild
    \/ KeysOpen
    \/ \E group \in {"products", "autoUpdate"} : KeysInvalidate(group)

SpecKeys == KeysInit /\ [][KeysNext]_vars

\* C6: the key builders give the same key for an id as a number and as its
\* decimal text, and the narrow key and the device key a group invalidates are
\* the keys the page registered its queries under
C6_KeysCanonical ==
    /\ res.stage = "built" =>
          /\ \A i \in 1..3 : hashKey(res.fromNumber[i]) = hashKey(res.fromText[i])
          /\ res.fromNumber[1][2] = JsNumber(arg)
    /\ res.stage = "invalidated" =>
          /\ hashKey(res.invalidated[1]) =
                hashKey(IF res.group = "products"
                        THEN res.registered.productsCached
                        ELSE res.registered.autoUpdate)
          /\ \A i \in 1..Len(res.invalidated) :
                res.invalidated[i][1] = JsString(<<"device">>)
                    => hashKey(res.invalidated[i]) = hashKey(res.registered.device)

C6_Witness ==
    /\ arg = 27
    /\ build = "grouped"
    /\ res.stage = "invalidated"
    /\ res.group = "products"
    /\ res.invalidated[2] = <<JsString(<<"device">>), JsNumber(27)>>
    /\ res.registered.device = res.invalidated[2]

-----------------------------------------------------------------------------
(* The pages, the React Query cache and the mutations.                     *)
(*                                                                         *)
(* React Query, as the pages use it (no option is set):                    *)
(*  - useQuery fetches when its page mounts, unless the query is already   *)
(*    fetching; a fetch that ends well stores the data and clears the      *)
(*    entry's invalidated and error marks;                                 *)
(*  - invalidateQueries marks every existing query under the key as        *)
(*    invalidated and refetches it if a mounted page observes it; a        *)
(*    refetch that is running is cancelled and started again, but the      *)
(*    first fetch of a query that has no data yet is left running and its  *)
(*    promise is the one returned; the promise of a failed refetch         *)
(*    settles without an error, and so does that of a cancelled one, at    *)
(*    once or, in the newer releases, when the refetch that replaced it    *)
(*    ends;                                                                *)
(*  - the callbacks given to useMutation run even after the page that      *)
(*    issued the mutation is unmounted, and the mutation stays pending     *)
(*    until the promise onSuccess returns is settled.                      *)
(*                                                                         *)
(* The behaviours are those of a session whose token stays valid: no       *)
(* request is answered 401 and the logout link is not used.  The server's  *)
(* data is a version number, raised by every write it applies; a query     *)
(* answers with the version the server held when it read the data.         *)
(***************************************************************************)

Keys == {"devices", "device", "productsCached", "autoUpdate"}

Kinds == {"create", "delete", "fetch", "upload", "patch", "auto"}

NoData == -1

EmptyEntry ==
    [data |-> NoData, inv |-> FALSE, err |-> FALSE, fetch |-> "idle",
     snap |-> NoData, by |-> {}, origin |-> "none"]

NoMutation ==
    [kind |-> "none", phase |-> "none", ok |-> FALSE, live |-> FALSE,
     inv |-> {}, ver |-> 0]

NoToast == [type |-> "none", id |-> 0]

\* the queries a page registers
PageKeys(r) ==
    IF r = "list" THEN {"devices"}
    ELSE IF r = "detail" THEN {"device", "productsCached", "autoUpdate"}
    ELSE {}

\* the page a mutation belongs to
PageOf(kind) == IF kind \in {"create", "delete"} THEN "list" ELSE "detail"

\* the query exists in the cache
Exists(e) == e.data # NoData \/ e.fetch # "idle" \/ e.err

\* the page shows the data of the query: not isLoading, not isError
Shown(e) == e.data # NoData /\ ~e.err

StartFetch(e, origin, by) ==
    [e EXCEPT !.fetch = "sent", !.snap = NoData, !.by = by, !.origin = origin,
              !.err = IF e.data = NoData THEN FALSE ELSE e.err]

\* useQuery on mount
MountEntry(e) == IF e.fetch # "idle" THEN e ELSE StartFetch(e, "mount", {})

MountPage(c, r) == [k \in Keys |-> IF k \in PageKeys(r) THEN MountEntry(c[k]) ELSE c[k]]

\* an invalidation that drops the entry instead of marking it
InvalidateEntry_Reset(e, active, i, origin, chained) ==
    IF ~Exists(e) THEN e
    ELSE IF ~active THEN EmptyEntry
    ELSE StartFetch([EmptyEntry EXCEPT !.inv = TRUE], origin, {i})

\* qc.invalidateQueries({queryKey}) on one entry, called for mutation i.
\* chained: the promises of a refetch it cancels wait for the new refetch
\* (the newer releases of the library) instead of settling at once
InvalidateEntry(e, active, i, origin, chained) ==
    IF ~Exists(e) THEN e
    ELSE LET marked == [e EXCEPT !.inv = TRUE]
         IN  IF ~active THEN marked
             ELSE IF e.fetch # "idle" /\ e.data = NoData
                  THEN [marked EXCEPT !.by = @ \cup {i}]
                  ELSE StartFetch(marked, origin, IF chained THEN e.by \cup {i} ELSE {i})

\* the keys the onSuccess handler of a mutation invalidates
GroupKeys(b, kind) ==
    IF kind \in {"create", "delete"} THEN {"devices"}
    ELSE IF b = "grouped"
         THEN IF kind = "auto" THEN {"autoUpdate", "device", "devices"}
              ELSE {"productsCached", "device", "devices"}
         ELSE IF kind = "auto" THEN {"autoUpdate"}
              ELSE {"productsCached", "device"}

\* the handler awaits its invalidations before it shows the toast
Awaited(b, kind) ==
    IF kind \in {"create", "delete"} THEN b \in {"named", "grouped"}
    ELSE b = "grouped"

\* the invalidation goes through a group of part_003
Origin(b) == IF b = "grouped" THEN "group" ELSE "direct"

Issued == {i \in 1..MaxMut : muts[i].phase # "none"}

\* useMutation shows the state of the last mutation its page issued
isPending(kind) ==
    LET mine == {i \in Issued : muts[i].kind = kind /\ muts[i].live}
    IN  /\ mine # {}
        /\ LET last == CHOOSE i \in mine : \A j \in mine : j <= i
           IN  muts[last].phase \in {"pending", "awaiting"}

\* the control that issues the mutation is rendered
ControlShown(kind) ==
    /\ route = PageOf(kind)
    /\ kind = "delete" => Shown(cache["devices"])
    /\ kind \in {"fetch", "upload", "patch", "auto"} => Shown(cache["device"])
    /\ kind = "patch" => Shown(cache["productsCached"])
    /\ kind = "auto" => Shown(cache["autoUpdate"])

\* the awaiting handlers none of whose invalidations is still running go on
\* and show their toast; t is the toast when none does
Settle(c, m, t) ==
    LET over == {j \in 1..MaxMut :
                    m[j].phase = "awaiting" /\ \A k \in Keys : j \notin c[k].by}
        shown == {j \in over : m[j].live}
    IN  /\ cache' = c
        /\ muts' = [j \in 1..MaxMut |->
                        IF j \in over THEN [m[j] EXCEPT !.phase = "done"] ELSE m[j]]
        /\ IF shown = {} THEN toast' = t
           ELSE \E j \in shown : toast' = [type |-> "success", id |-> j]

\* the queries in flight for which the server has not read the data yet
Unanswered == {k \in Keys : cache[k].fetch = "sent" /\ cache[k].snap = NoData}

\* what the server answers to the query in flight: the data it read before a
\* write, or the data it holds now
Answer(e) == IF e.snap = NoData THEN srv ELSE e.snap

PagesInit ==
    /\ visits = MaxNav
    /\ mode = "pages"
    /\ arg = <<>>
    /\ res = <<>>
    /\ build \in Builds
    /\ token \in BOOLEAN
    /\ route = "boot"
    /\ srv = 0
    /\ cache = [k \in Keys |-> EmptyEntry]
    /\ muts = [i \in 1..MaxMut |-> NoMutation]
    /\ toast = NoToast

\* App mounts: without a token the cache is cleared and ProtectedRoute
\* leads to /auth; with one, the list or a device page opens
AppMount ==
    /\ route = "boot"
    /\ IF token
       THEN \E r \in {"list", "detail"} :
                /\ route' = r
                /\ cache' = MountPage(cache, r)
       ELSE /\ route' = "auth"
            /\ cache' = [k \in Keys |-> EmptyEntry]
    /\ UNCHANGED <<visits, pureVars, build, token, srv, muts, toast>>

\* AuthPage: a login succeeds
Login ==
    /\ route = "auth"
    /\ token' = TRUE
    /\ route' = "list"
    /\ cache' = MountPage(cache, "list")
    /\ UNCHANGED <<visits, pureVars, build, srv, muts, toast>>

\* the page unmounts: its toast and its mutation observers are gone
Unmounted(m) == [i \in 1..MaxMut |-> [m[i] EXCEPT !.live = FALSE]]

\* a device card of the list, or the link to the list
Navigate ==
    /\ visits > 0
    /\ visits' = visits - 1
    /\ \/ route = "list" /\ Shown(cache["devices"]) /\ route' = "detail"
       \/ route = "detail" /\ route' = "list"
    /\ cache' = MountPage(cache, route')
    /\ muts' = Unmounted(muts)
    /\ toast' = NoToast
    /\ UNCHANGED <<pureVars, build, token, srv>>

Issue(kind) ==
    LET i == Cardinality(Issued) + 1
    IN  /\ i <= MaxMut
        /\ muts' = [muts EXCEPT ![i] =
                        [kind |-> kind, phase |-> "pending", ok |-> FALSE,
                         live |-> TRUE, inv |-> {}, ver |-> 0]]
        /\ UNCHANGED <<visits, pureVars, build, token, route, srv, cache, toast>>

\* a button, or the Yes/No toggle: disabled while its mutation is pending
Mutate(kind) ==
    /\ ControlShown(kind)
    /\ ~isPending(kind)
    /\ Issue(kind)

\* the interval field: never disabled
ChangeInterval ==
    /\ ControlShown("auto")
    /\ Issue("auto")

\* the request is answered 2xx: the server has applied the write, after it
\* had read the data for the queries of early; onSuccess invalidates its keys
\* and shows the toast, at once or after the refetches
MutationSucceeds(i, early, chained) ==
    /\ muts[i].phase = "pending"
    /\ srv' = srv + 1
    /\ LET kind == muts[i].kind
           keys == GroupKeys(build, kind)
           read == [k \in Keys |->
                      IF k \in early THEN [cache[k] EXCEPT !.snap = srv] ELSE cache[k]]
           c == [k \in Keys |->
                    IF k \in keys
                    THEN InvalidateEntry(read[k], k \in PageKeys(route), i, Origin(build), chained)
                    ELSE read[k]]
           waits == Awaited(build, kind) /\ \E k \in Keys : i \in c[k].by
           m == [muts EXCEPT ![i] =
                    [@ EXCEPT !.phase = IF waits THEN "awaiting" ELSE "done",
                              !.ok = TRUE, !.inv = keys, !.ver = srv']]
           t == IF ~waits /\ muts[i].live THEN [type |-> "success", id |-> i] ELSE toast
       IN  Settle(c, m, t)
    /\ UNCHANGED <<visits, pureVars, build, token, route>>

\* a failure whose onError shows nothing
MutationFails_Silent(i, quiet) ==
    /\ muts[i].phase = "pending"
    /\ quiet => muts[i].kind = "create"
    /\ muts' = [muts EXCEPT ![i] = [@ EXCEPT !.phase = "done"]]
    /\ UNCHANGED <<visits, pureVars, build, token, route, srv, cache, toast>>

\* the request fails and onError shows the error toast; quiet: the form of
\* the new device is not valid, no request is sent and onError shows nothing
MutationFails(i, quiet) ==
    /\ muts[i].phase = "pending"
    /\ quiet => muts[i].kind = "create"
    /\ muts' = [muts EXCEPT ![i] = [@ EXCEPT !.phase = "done"]]
    /\ toast' = IF muts[i].live /\ ~quiet THEN [type |-> "error", id |-> i] ELSE toast
    /\ UNCHANGED <<visits, pureVars, build, token, route, srv, cache>>

\* the close button of the toast
CloseToast ==
    /\ toast # NoToast
    /\ toast' = NoToast
    /\ UNCHANGED <<visits, pureVars, build, token, route, srv, cache, muts>>

\* the answer of the server arrives and is stored
FetchDone(k) ==
    /\ cache[k].fetch = "sent"
    /\ Settle([cache EXCEPT ![k] =
                  [data |-> Answer(cache[k]), inv |-> FALSE, err |-> FALSE,
                   fetch |-> "idle", snap |-> NoData, by |-> {}, origin |-> "none"]],
              muts, toast)
    /\ UNCHANGED <<visits, pureVars, build, token, route, srv>>

\* the query fails: the data stays, the entry is in error
FetchFail(k) ==
    /\ cache[k].fetch # "idle"
    /\ Settle([cache EXCEPT ![k] =
                  [@ EXCEPT !.err = TRUE, !.fetch = "idle", !.snap = NoData,
                            !.by = {}, !.origin = "none"]],
              muts, toast)
    /\ UNCHANGED <<visits, pureVars, build, token, route, srv>>

Next ==
    \/ AppMount
    \/ Login
    \/ Navigate
    \/ \E kind \in Kinds : Mutate(kind)
    \/ ChangeInterval
    \/ \E i \in 1..MaxMut : \E early \in SUBSET Unanswered : \E chained \in BOOLEAN :
            MutationSucceeds(i, early, chained)
    \/ \E i \in 1..MaxMut : \E quiet \in BOOLEAN : MutationFails(i, quiet)
    \/ CloseToast
    \/ \E k \in Keys : FetchDone(k)
    \/ \E k \in Keys : FetchFail(k)

Spec == PagesInit /\ [][Next]_vars

-----------------------------------------------------------------------------
(* The contracts of the invalidation groups.                               *)

\* C1: the success toast of a mutation is never on screen while an
\* invalidation that mutation started is still running
C1_ToastAfterInvalidations ==
    toast.type = "success" => \A k \in Keys : toast.id \notin cache[k].by

NarrowKey(kind) == IF kind = "auto" THEN "autoUpdate" ELSE "productsCached"

\* C2: a fetch, upload, patch or auto-update mutation that succeeded has
\* invalidated its narrow key, the device key and the devices key
C2_DetailGroupsComplete ==
    \A i \in Issued :
        muts[i].ok /\ PageOf(muts[i].kind) = "detail"
            => {NarrowKey(muts[i].kind), "device", "devices"} \subseteq muts[i].inv

\* C3: a create or delete that succeeded has invalidated the devices key, and
\* the list page never shows, as fresh, a list older than that create or
\* delete; a create or delete that failed has invalidated nothing
C3_ListInvalidated ==
    \A i \in Issued :
        muts[i].kind \in {"create", "delete"} =>
            /\ muts[i].ok =>
                  /\ "devices" \in muts[i].inv
                  /\ route = "list" /\ Shown(cache["devices"]) /\ ~cache["devices"].inv
                        => cache["devices"].data >= muts[i].ver
            /\ ~muts[i].ok => muts[i].inv = {}

\* the mutation succeeded, its handler is over and none of the invalidations
\* it started is still running
GroupCompleted(i) ==
    /\ muts[i].ok
    /\ muts[i].phase = "done"
    /\ \A k \in Keys : i \notin cache[k].by

\* C4: once an upload has succeeded and its invalidations are over, the device
\* page shows no device and no cached products older than the upload
C4_PushThenFresh ==
    \A i \in Issued :
        muts[i].kind = "upload" /\ GroupCompleted(i) /\ route = "detail" =>
            \A k \in {"device", "productsCached"} :
                Shown(cache[k]) => cache[k].data >= muts[i].ver

\* C5 as stated: the data of a query changes only when a fetch started by an
\* invalidation group is stored
C5_OnlyGroupFetches ==
    [][\A k \in Keys :
          cache'[k].data # cache[k].data
              => cache[k].fetch = "sent" /\ cache[k].origin = "group"]_vars

\* C5: the data of a query changes only when the answer of a fetch of that
\* query is stored, and a query leaves the cache only when App clears the
\* cache on start-up without a token
C5_OnlyFetchesChangeCache ==
    [][\A k \in Keys :
          /\ cache'[k].data # cache[k].data
                => cache[k].fetch = "sent" /\ cache'[k].data = Answer(cache[k])
          /\ Exists(cache[k]) /\ ~Exists(cache'[k])
                => route = "boot" /\ ~token]_vars

C5_Witness ==
    /\ build = "grouped"
    /\ \E i \in Issued :
          /\ muts[i].kind = "upload"
          /\ GroupCompleted(i)
          /\ cache["productsCached"].data = muts[i].ver
          /\ cache["device"].data = muts[i].ver
          /\ cache["devices"].inv

-----------------------------------------------------------------------------
(* dateErrorText applied to a text: the message under a date field of the  *)
(* edit form and the check saveEdit makes before it sends the form.        *)

\* the format and the example the message names
FormatName == <<"D", "D", "-", "M", "M", "-", "Y", "Y">>
FormatExample == <<"0", "1", "-", "0", "1", "-", "2", "6">>

\* the message of dateErrorText; its Russian words are written in Latin
\* letters: "Format daty: DD-MM-YY, naprimer 01-01-26"
DateFormatError ==
    <<"F", "o", "r", "m", "a", "t", " ", "d", "a", "t", "y", ":", " ">>
        \o FormatName
        \o <<",", " ", "n", "a", "p", "r", "i", "m", "e", "r", " ">>
        \o FormatExample

\* !s of a text
IsEmptyText(s) == s = <<>>

isDDMMYY(s) == IF IsEmptyText(s) THEN TRUE ELSE parseDDMMYY(s).ok

\* dateErrorText without its first line: the empty text is judged by parse
dateErrorText_EmptyJudged(s) ==
    IF parseDDMMYY(s).ok THEN <<>> ELSE DateFormatError

dateErrorText(s) ==
    IF IsEmptyText(s) THEN <<>>
    ELSE IF isDDMMYY(s) THEN <<>> ELSE DateFormatError

\* texts with other digits than the free texts have
ValidateExamples ==
    { <<"1", "-", "1", "-", "2", "6">>,
      <<"0", "1", "-", "0">>,
      <<"0", "1">>,
      <<" ", "0", "1", "-", "0", "1", "-", "2", "6", " ">> }

ValidateInit ==
    /\ mode = "validate"
    /\ \/ arg \in DateTexts \cup ValidateExamples
       \/ \E head \in Heads, tail \in Tails : arg = head \o tail
    /\ res = NotCalled
    /\ PagesUnused

ValidateCall ==
    /\ res = NotCalled
    /\ res' = <<dateErrorText(arg)>>
    /\ UNCHANGED <<visits, mode, arg, pageVars>>

ValidateNext == ValidateCall

SpecValidate == ValidateInit /\ [][ValidateNext]_vars

\* p occurs in s as a run of neighbouring characters
IsInfix(p, s) ==
    \E i \in 0..(Len(s) - Len(p)) : SubSeq(s, i + 1, i + Len(p)) = p

\* C11: validate returns the empty text for the empty input and for every
\* input parse accepts, and for every other input a non-empty message that
\* names the format DD-MM-YY with an example; "1-1-26", "01-0" and
\* "31-02-26" get the message
C11_ValidateText ==
    res # NotCalled =>
        LET accepted == arg = <<>> \/ parseDDMMYY(arg).ok
        IN  /\ accepted => res[1] = <<>>
            /\ ~accepted =>
                  /\ res[1] # <<>>
                  /\ IsInfix(FormatName, res[1])
                  /\ \E i \in 1..Len(res[1]) :
                        parseDDMMYY(SubSeq(res[1], i, Len(res[1]))).ok
            /\ arg \in { <<"1", "-", "1", "-", "2", "6">>,
                         <<"0", "1", "-", "0">>,
                         FmtDDMMYY(31, 2, 26) } => res[1] # <<>>
            /\ arg = FmtDDMMYY(1, 1, 26) => res[1] = <<>>

C11_Witness ==
    /\ arg = FmtDDMMYY(31, 2, 26)
    /\ res = <<DateFormatError>>

-----------------------------------------------------------------------------
(* The edit form of a product: its two date fields, their error texts and  *)
(* the PATCH request saveEdit sends.  res holds the component's state      *)
(* (edit, editErrors, editOpen) and out, what the last handler call sent   *)
(* or showed.                                                              *)

\* what the keyboard puts into a date field
FormKeys == {"1", "3", "-"}

\* maxLength of the date inputs
DateMaxLength == 8

DateFields == {"manufactureDate", "sellByDate"}

JsNullText == <<"null">>

\* the products of the table, as far as the form reads them: getPlu(p), which
\* is a code as a text or a number, zero, null or a text that is no number,
\* and the two date texts, which are null, empty, a date, a date that rolls
\* over or a date in another format
Products ==
    { [plu |-> JsString(<<"7">>),
       manufactureDate |-> JsNullText, sellByDate |-> JsNullText],
      [plu |-> JsNumber(7), manufactureDate |-> FmtDDMMYY(1, 1, 26),
                            sellByDate |-> FmtDDMMYY(31, 2, 26)],
      [plu |-> JsNull,
       manufactureDate |-> <<"2", "0", "2", "6", "-", "0", "1", "-", "0", "1">>,
       sellByDate |-> <<>>],
      [plu |-> JsString(<<"a">>), manufactureDate |-> <<>>,
                                  sellByDate |-> FmtDDMMYY(1, 1, 26)],
      [plu |-> JsNumber(0), manufactureDate |-> <<>>, sellByDate |-> <<>>] }

\* plu ?? ""
PluOrEmpty(plu) == IF plu = JsNull THEN JsString(<<>>) ELSE plu

\* Number.isFinite(pluNum) && pluNum > 0
IsPluNumber(pluNum) == pluNum.t = "number" /\ pluNum.n > 0

\* v || ""
OrEmpty(v) == IF v = JsNullText THEN <<>> ELSE v

NoPatch ==
    [sent |-> FALSE, plu |-> JsNaN, manufactureDate |-> <<>>, sellByDate |-> <<>>]

NoOutput == [patch |-> NoPatch, toast |-> "none"]

FormInit ==
    /\ mode = "form"
    /\ arg = <<>>
    /\ res = [edit |-> [plu |-> JsString(<<>>), manufactureDate |-> <<>>,
                        sellByDate |-> <<>>],
              editErrors |-> [manufactureDate |-> <<>>, sellByDate |-> <<>>],
              editOpen |-> FALSE,
              out |-> NoOutput]
    /\ PagesUnused

openEdit(p) ==
    LET mfg == maskDDMMYY(OrEmpty(p.manufactureDate))
        sell == maskDDMMYY(OrEmpty(p.sellByDate))
    IN  /\ ~res.editOpen
        /\ res' = [edit |-> [plu |-> PluOrEmpty(p.plu), manufactureDate |-> mfg,
                             sellByDate |-> sell],
                   editErrors |-> [manufactureDate |-> dateErrorText(mfg),
                                   sellByDate |-> dateErrorText(sell)],
                   editOpen |-> TRUE,
                   out |-> NoOutput]
        /\ UNCHANGED <<visits, mode, arg, pageVars>>

closeEdit ==
    /\ res.editOpen
    /\ res' = [res EXCEPT !.editOpen = FALSE, !.out = NoOutput]
    /\ UNCHANGED <<visits, mode, arg, pageVars>>

\* the texts one key press makes of the text of a field
TargetValues(cur) ==
    {Append(cur, c) : c \in IF Len(cur) < DateMaxLength THEN FormKeys ELSE {}}
        \cup (IF cur = <<>> THEN {} ELSE {SubSeq(cur, 1, Len(cur) - 1)})

\* onChange that stores the masked text and leaves the error text alone
ChangeDate_ErrorKept(f, text) ==
    LET v == maskDDMMYY(text)
    IN  /\ res.editOpen
        /\ text \in TargetValues(res.edit[f])
        /\ res' = [res EXCEPT !.edit[f] = v, !.out = NoOutput]
        /\ UNCHANGED <<visits, mode, arg, pageVars>>

\* onChange of a date field
ChangeDate(f, text) ==
    LET v == maskDDMMYY(text)
    IN  /\ res.editOpen
        /\ text \in TargetValues(res.edit[f])
        /\ res' = [res EXCEPT !.edit[f] = v,
                              !.editErrors[f] = dateErrorText(v),
                              !.out = NoOutput]
        /\ UNCHANGED <<visits, mode, arg, pageVars>>

\* onBlur of a date field
BlurDate(f) ==
    LET v == maskDDMMYY(res.edit[f])
    IN  /\ res.editOpen
        /\ res' = [res EXCEPT !.edit[f] = v,
                              !.editErrors[f] = dateErrorText(v),
                              !.out = NoOutput]
        /\ UNCHANGED <<visits, mode, arg, pageVars>>

\* saveEdit that sends the form without validateDatesOrStop
saveEdit_Unchecked ==
    /\ res.editOpen
    /\ res' = IF ~IsPluNumber(Number(res.edit.plu))
              THEN [res EXCEPT !.out = [patch |-> NoPatch, toast |-> "plu"]]
              ELSE [res EXCEPT
                      !.editOpen = FALSE,
                      !.out = [patch |-> [sent |-> TRUE,
                                 plu |-> Number(res.edit.plu),
                                 manufactureDate |-> res.edit.manufactureDate,
                                 sellByDate |-> res.edit.sellByDate],
                               toast |-> "none"]]
    /\ UNCHANGED <<visits, mode, arg, pageVars>>

\* saveEdit that sends whatever Number(edit.plu) is
saveEdit_PluUnchecked ==
    LET mfgErr == dateErrorText(res.edit.manufactureDate)
        sellErr == dateErrorText(res.edit.sellByDate)
    IN  /\ res.editOpen
        /\ res' =
            IF mfgErr # <<>> \/ sellErr # <<>>
            THEN [res EXCEPT
                    !.editErrors = [manufactureDate |-> mfgErr,
                                    sellByDate |-> sellErr],
                    !.out = [patch |-> NoPatch, toast |-> "dates"]]
            ELSE [res EXCEPT
                    !.editErrors = [manufactureDate |-> <<>>,
                                    sellByDate |-> <<>>],
                    !.editOpen = FALSE,
                    !.out = [patch |-> [sent |-> TRUE,
                               plu |-> Number(res.edit.plu),
                               manufactureDate |-> OrEmpty(res.edit.manufactureDate),
                               sellByDate |-> OrEmpty(res.edit.sellByDate)],
                             toast |-> "none"]]
        /\ UNCHANGED <<visits, mode, arg, pageVars>>

\* saveEdit, validateDatesOrStop included
saveEdit ==
    LET pluNum == Number(res.edit.plu)
        mfgErr == dateErrorText(res.edit.manufactureDate)
        sellErr == dateErrorText(res.edit.sellByDate)
    IN  /\ res.editOpen
        /\ res' =
            IF ~IsPluNumber(pluNum)
            THEN [res EXCEPT !.out = [patch |-> NoPatch, toast |-> "plu"]]
            ELSE IF mfgErr # <<>> \/ sellErr # <<>>
            THEN [res EXCEPT
                    !.editErrors = [manufactureDate |-> mfgErr,
                                    sellByDate |-> sellErr],
                    !.out = [patch |-> NoPatch, toast |-> "dates"]]
            ELSE [res EXCEPT
                    !.editErrors = [manufactureDate |-> <<>>,
                                    sellByDate |-> <<>>],
                    !.editOpen = FALSE,
                    !.out = [patch |-> [sent |-> TRUE,
                               plu |-> pluNum,
                               manufactureDate |-> OrEmpty(res.edit.manufactureDate),
                               sellByDate |-> OrEmpty(res.edit.sellByDate)],
                             toast |-> "none"]]
        /\ UNCHANGED <<visits, mode, arg, pageVars>>

FormNext ==
    \/ \E p \in Products : openEdit(p)
    \/ closeEdit
    \/ \E f \in DateFields :
          \E text \in TargetValues(res.edit[f]) : ChangeDate(f, text)
    \/ \E f \in DateFields : BlurDate(f)
    \/ saveEdit

SpecForm == FormInit /\ [][FormNext]_vars

\* the text is empty or a DD-MM-YY text of a day of the calendar
EmptyOrValidDate(s) ==
    \/ s = <<>>
    \/ /\ MatchesDDMMYY(s)
       /\ LET dd == TwoDigits(SubSeq(s, 1, 2))
              mm == TwoDigits(SubSeq(s, 4, 5))
              yy == 2000 + TwoDigits(SubSeq(s, 7, 8))
          IN  mm \in 1..12 /\ dd \in 1..DaysInMonth(mm, yy)

\* C12 as stated: in every state each date text of the edit form is empty
\* or a DD-MM-YY text of a day, month and year that parse accepts
C12_FieldsEmptyOrValid ==
    \A f \in DateFields : EmptyOrValidDate(res.edit[f])

\* C12, amended: in every state each date text of the edit form is a text
\* the mask leaves as it is, of at most eight characters; its error text is
\* empty exactly when it is empty or a DD-MM-YY text of a day of the
\* calendar; and the dates of a PATCH request are empty or such texts
C12_FieldsMaskedAndJudged ==
    /\ \A f \in DateFields :
          /\ maskDDMMYY(res.edit[f]) = res.edit[f]
          /\ Len(res.edit[f]) <= DateMaxLength
          /\ res.editOpen =>
                (res.editErrors[f] = <<>> <=> EmptyOrValidDate(res.edit[f]))
    /\ res.out.patch.sent =>
          /\ EmptyOrValidDate(res.out.patch.manufactureDate)
          /\ EmptyOrValidDate(res.out.patch.sellByDate)

\* a rolled-over date was typed, is flagged, and an earlier form was sent
C12_Witness ==
    /\ res.editOpen
    /\ res.edit.manufactureDate = FmtDDMMYY(31, 11, 13)
    /\ res.editErrors.manufactureDate = DateFormatError
    /\ res.edit.sellByDate = <<"1", "1", "-", "1">>
    /\ res.out.toast = "dates"

-----------------------------------------------------------------------------
(* computeStatus applied to a product at some moment.  A moment is a count *)
(* of ticks since 1970-01-01T00:00Z, TicksPerDay of them to the day, so    *)
(* that the time of day exists; arg holds the product's sellByDate and the *)
(* moment new Date() returns.                                              *)

\* the resolution of the clock
TicksPerDay == 4

\* how many days after an anchor day the clock may stand
MaxNowSpan == 3

\* the two-digit years of the sell-by dates
StatusYears == {24, 25, 26}

\* the day before a leap day and the last day of a year
NowAnchors == {CalendarDay(2024, 2, 28), CalendarDay(2025, 12, 31)}

NowDays == {a + k : a \in NowAnchors, k \in 0..MaxNowSpan}

JsUndefinedText == <<"undefined">>

\* p?.sellByDate: missing, empty, not a date, or a DD-MM-YY text
SellByTexts ==
    {JsUndefinedText, JsNullText, <<>>, <<"x">>,
     <<"2", "0", "2", "6", "-", "0", "1", "-", "0", "1">>}
        \cup {FmtDDMMYY(dd, mm, yy) :
                dd \in 0..MaxDay, mm \in 0..MaxMonth, yy \in StatusYears}

\* the day of a moment
DayOf(t) == t \div TicksPerDay

\* getTime() of a date at UTC midnight
getTime(day) == day * TicksPerDay

NoDays == [ok |-> FALSE, d |-> 0]

\* daysUntil that subtracts the moment itself, time of day included
daysUntil_TimeOfDay(dateUtc, now) ==
    IF ~dateUtc.ok THEN NoDays
    ELSE [ok |-> TRUE, d |-> (getTime(dateUtc.day) - now) \div TicksPerDay]

\* daysUntil(dateUtc), now being what new Date() returns
daysUntil(dateUtc, now) ==
    IF ~dateUtc.ok THEN NoDays
    ELSE LET nowUtc == DateUTC(getUTCFullYear(DayOf(now)),
                               getUTCMonth(DayOf(now)),
                               getUTCDate(DayOf(now)))
             diffMs == getTime(dateUtc.day) - getTime(nowUtc)
         IN  [ok |-> TRUE, d |-> diffMs \div TicksPerDay]

\* the labels; the Russian words are written in Latin letters
StatusOk == [cls |-> "status-ok", label |-> <<"O", "K">>]
StatusBad ==
    [cls |-> "status-bad",
     label |-> <<"P", "r", "o", "s", "r", "o", "c", "h", "e", "n">>]
StatusWarn(d) ==
    [cls |-> "status-warn",
     label |-> <<"S", "k", "o", "r", "o", " ", "(">> \o DecimalText(d)
                  \o <<"d", ")">>]

\* computeStatus(p), sellByDate being p?.sellByDate
computeStatus(sellByDate, now) ==
    LET sellBy == IF sellByDate \in {JsUndefinedText, JsNullText}
                  THEN NullDate
                  ELSE parseDDMMYY(sellByDate)
        d == daysUntil(sellBy, now)
    IN  IF ~d.ok THEN StatusOk
        ELSE IF d.d < 0 THEN StatusBad
        ELSE IF d.d <= 2 THEN StatusWarn(d.d)
        ELSE StatusOk

StatusInit ==
    /\ mode = "status"
    /\ \E text \in SellByTexts, day \in NowDays, tick \in 0..(TicksPerDay - 1) :
          arg = [sellByDate |-> text, now |-> day * TicksPerDay + tick]
    /\ res = NotCalled
    /\ PagesUnused

StatusCall ==
    /\ res = NotCalled
    /\ res' = <<computeStatus(arg.sellByDate, arg.now)>>
    /\ UNCHANGED <<visits, mode, arg, pageVars>>

StatusNext == StatusCall

SpecStatus == StatusInit /\ [][StatusNext]_vars

\* the sell-by text names a day of the calendar
IsCalendarText(s) ==
    /\ s \notin {JsUndefinedText, JsNullText, <<>>}
    /\ EmptyOrValidDate(s)

\* the day a sell-by text names
CalendarDayOfText(s) ==
    CalendarDay(2000 + TwoDigits(SubSeq(s, 7, 8)), TwoDigits(SubSeq(s, 4, 5)),
                TwoDigits(SubSeq(s, 1, 2)))

\* C13: the status is OK when the sell-by date is missing or not a date;
\* otherwise, with daysUntil the whole days from today's UTC date to the
\* sell-by date, whatever the time of day, it is EXPIRED when daysUntil < 0,
\* EXPIRING_SOON with daysUntil in the label when 0 <= daysUntil <= 2, and
\* OK when daysUntil >= 3
C13_StatusByDays ==
    res # NotCalled =>
        IF ~IsCalendarText(arg.sellByDate)
        THEN res[1] = StatusOk
        ELSE LET until == CalendarDayOfText(arg.sellByDate) - DayOf(arg.now)
             IN  /\ until < 0 => res[1].cls = "status-bad"
                 /\ until \in 0..2 =>
                       /\ res[1].cls = "status-warn"
                       /\ IsInfix(DecimalText(until), res[1].label)
                 /\ until >= 3 => res[1] = StatusOk

\* late on the last day of 2025 a product good until 2 January is two days
\* from its date
C13_Witness ==
    /\ arg.sellByDate = FmtDDMMYY(2, 1, 26)
    /\ arg.now = CalendarDay(2025, 12, 31) * TicksPerDay + (TicksPerDay - 1)
    /\ res = <<StatusWarn(2)>>

-----------------------------------------------------------------------------
(* normalizeIntervalMinutes applied to a value and a fallback.  A finite   *)
(* number is the fraction num/den, den a power of ten, so that 15.9 and    *)
(* 0.5 exist; arg holds the value and the fallback.                        *)

\* the longest text of the interval field
MaxIntervalLen == 4

\* the largest number of tenths of a number value
MaxIntervalTenths == 160

IvNum(num, den) == [t |-> "number", num |-> num, den |-> den]
IvNaN == [t |-> "NaN"]
IvInfinity(neg) == [t |-> "Infinity", neg |-> neg]
IvNull == [t |-> "null"]
IvUndefined == [t |-> "undefined"]
IvBool(b) == [t |-> "boolean", b |-> b]
IvText(s) == [t |-> "string", s |-> s]

RECURSIVE Pow10(_)
Pow10(n) == IF n = 0 THEN 1 ELSE 10 * Pow10(n - 1)

\* StringToNumber of a text of digits, '.', '-' and white space: the trimmed
\* text is empty (0), or a sign, digits and at most one '.', with a digit
\* somewhere; every other text is NaN
StringToNumber(s) ==
    LET str == Trim(s)
        neg == str # <<>> /\ str[1] = "-"
        body == IF neg THEN Tail(str) ELSE str
        dots == {i \in 1..Len(body) : body[i] = "."}
        p == IF dots = {} THEN Len(body) + 1 ELSE CHOOSE i \in dots : TRUE
        int == SubSeq(body, 1, p - 1)
        frac == SubSeq(body, p + 1, Len(body))
        den == Pow10(Len(frac))
        num == DecimalValue(int) * den + DecimalValue(frac)
    IN  IF str = <<>> THEN IvNum(0, 1)
        ELSE IF \/ \E i \in 1..Len(body) : ~IsDigit(body[i]) /\ body[i] # "."
                \/ Cardinality(dots) > 1
                \/ Len(int) + Len(frac) = 0
        THEN IvNaN
        ELSE IvNum(IF neg THEN -num ELSE num, den)

\* Number(v) for every kind of value
ToNumber(v) ==
    CASE v.t = "number" -> v
      [] v.t = "string" -> StringToNumber(v.s)
      [] v.t = "boolean" -> IvNum(IF v.b THEN 1 ELSE 0, 1)
      [] v.t = "null" -> IvNum(0, 1)
      [] OTHER -> IF v.t = "undefined" THEN IvNaN ELSE v

isFinite(n) == n.t = "number"

\* Math.trunc of a finite number
trunc(n) == IF n.num >= 0 THEN n.num \div n.den ELSE -((-n.num) \div n.den)

\* normalizeIntervalMinutes that tests the number before it is truncated
normalizeIntervalMinutes_TestFirst(v, fallback) ==
    LET n == ToNumber(v)
    IN  IF ~isFinite(n) THEN fallback
        ELSE IF n.num <= 0 THEN fallback
        ELSE IvNum(trunc(n), 1)

normalizeIntervalMinutes(v, fallback) ==
    LET n == ToNumber(v)
    IN  IF ~isFinite(n) THEN fallback
        ELSE LET intN == trunc(n)
             IN  IF intN <= 0 THEN fallback ELSE IvNum(intN, 1)

IntervalAlphabet == {"1", "5", ".", "-", " "}

\* the values handed to normalizeIntervalMinutes: what the field holds and
\* what the server returned as interval_minutes
IntervalValues ==
    {IvText(s) : s \in StringsUpTo(IntervalAlphabet, MaxIntervalLen)}
        \cup {IvNum(k, 10) : k \in (-MaxIntervalTenths)..MaxIntervalTenths}
        \cup {IvNaN, IvInfinity(FALSE), IvInfinity(TRUE), IvNull, IvUndefined,
              IvBool(FALSE), IvBool(TRUE)}

Fallbacks == {IvNum(60, 1), IvNum(5, 1)}

IntervalInit ==
    /\ mode = "interval"
    /\ \E v \in IntervalValues, fallback \in Fallbacks :
          arg = [value |-> v, fallback |-> fallback]
    /\ res = NotCalled
    /\ PagesUnused

IntervalCall ==
    /\ res = NotCalled
    /\ res' = <<normalizeIntervalMinutes(arg.value, arg.fallback)>>
    /\ UNCHANGED <<visits, mode, arg, pageVars>>

IntervalNext == IntervalCall

SpecInterval == IntervalInit /\ [][IntervalNext]_vars

\* the value is a number, or a text that reads as one
ReadsAsNumber(v) == ToNumber(v).t = "number"

\* C14 as stated: the result is the fallback when the value is not a finite
\* number or is at most 0, and otherwise the value truncated toward zero
C14_FallbackAtMostZero ==
    res # NotCalled =>
        LET n == ToNumber(arg.value)
        IN  IF ~ReadsAsNumber(arg.value) \/ n.num <= 0
            THEN res[1] = arg.fallback
            ELSE res[1] = IvNum(trunc(n), 1)

\* C14, amended: the result is the fallback when the value is not a finite
\* number or is below 1, and otherwise the value truncated toward zero;
\* (0, 60) gives 60, (15.9, 60) gives 15, (-5, 60) gives 60, and every
\* result is the fallback or a whole number of at least 1
C14_FallbackBelowOne ==
    res # NotCalled =>
        LET n == ToNumber(arg.value)
        IN  /\ IF ~ReadsAsNumber(arg.value) \/ n.num < n.den
               THEN res[1] = arg.fallback
               ELSE /\ res[1].t = "number" /\ res[1].den = 1
                    /\ res[1].num * n.den <= n.num
                    /\ n.num < (res[1].num + 1) * n.den
            /\ res[1] = arg.fallback
                  \/ (res[1].t = "number" /\ res[1].den = 1 /\ res[1].num >= 1)
            /\ arg = [value |-> IvNum(0, 10), fallback |-> IvNum(60, 1)]
                  => res[1] = IvNum(60, 1)
            /\ arg = [value |-> IvNum(159, 10), fallback |-> IvNum(60, 1)]
                  => res[1] = IvNum(15, 1)
            /\ arg = [value |-> IvNum(-50, 10), fallback |-> IvNum(60, 1)]
                  => res[1] = IvNum(60, 1)

\* one half is above 0 and gives the fallback
C14_Witness ==
    /\ arg = [value |-> IvNum(5, 10), fallback |-> IvNum(60, 1)]
    /\ res = <<IvNum(60, 1)>>

-----------------------------------------------------------------------------
(* The auto-update panel of the device page, in its two copies: the toggle *)
(* and the interval field send PUT /devices/{id}/auto-update.  arg holds   *)
(* the copy and autoQ.data; res holds autoM.isPending and the body of the  *)
(* last PUT.                                                               *)

\* the copies of the device page
DetailPages == {"DeviceDetailPage.jsx", "part_001"}

\* the longest text typed into the interval field
MaxFieldLen == 3

\* e.target.value of the interval field
FieldTexts == StringsUpTo({"0", "1", "5", ".", "-"}, MaxFieldLen)

\* interval_minutes of the settings the server returned
CachedIntervals ==
    {IvNum(k, 10) : k \in {-50, 0, 5, 10, 159, 600}}
        \cup {IvNull, IvUndefined, IvText(<<>>), IvText(<<"x">>),
              IvText(<<"1", "5">>)}

\* a value counts as true in a condition
Truthy(v) ==
    CASE v.t = "number" -> v.num # 0
      [] v.t = "string" -> v.s # <<>>
      [] v.t = "boolean" -> v.b
      [] v.t = "Infinity" -> TRUE
      [] OTHER -> FALSE

\* Number(v || 60)
NumberOr60(v) == ToNumber(IF Truthy(v) THEN v ELSE IvNum(60, 1))

\* interval_minutes of the body a copy of the page builds from a value
BodyInterval(page, v) ==
    IF page = "part_001"
    THEN normalizeIntervalMinutes(v, IvNum(60, 1))
    ELSE NumberOr60(v)

NoPut == [sent |-> FALSE, enabled |-> FALSE, interval_minutes |-> IvNull]

AutoInit ==
    /\ mode = "auto"
    /\ \E page \in DetailPages, enabled \in BOOLEAN, iv \in CachedIntervals :
          arg = [page |-> page,
                 data |-> [enabled |-> enabled, interval_minutes |-> iv]]
    /\ res = [isPending |-> FALSE, put |-> NoPut]
    /\ PagesUnused

\* onChange of the YesNoToggle
ToggleAuto(enabled) ==
    /\ ~res.isPending
    /\ res' = [isPending |-> TRUE,
               put |-> [sent |-> TRUE, enabled |-> enabled,
                        interval_minutes |->
                            BodyInterval(arg.page, arg.data.interval_minutes)]]
    /\ UNCHANGED <<visits, mode, arg, pageVars>>

\* onChange of the interval field
TypeInterval(text) ==
    /\ res' = [isPending |-> TRUE,
               put |-> [sent |-> TRUE, enabled |-> arg.data.enabled,
                        interval_minutes |->
                            BodyInterval(arg.page, IvText(text))]]
    /\ UNCHANGED <<visits, mode, arg, pageVars>>

\* the PUT is answered and the settings are read again, or it fails
AutoSettled(data) ==
    /\ res.isPending
    /\ res' = [res EXCEPT !.isPending = FALSE]
    /\ arg' = [arg EXCEPT !.data = data]
    /\ UNCHANGED <<visits, mode, pageVars>>

AutoNext ==
    \/ \E enabled \in BOOLEAN : ToggleAuto(enabled)
    \/ \E text \in FieldTexts : TypeInterval(text)
    \/ \E enabled \in BOOLEAN, iv \in CachedIntervals :
          AutoSettled([enabled |-> enabled, interval_minutes |-> iv])

SpecAuto == AutoInit /\ [][AutoNext]_vars

\* a whole number of at least 1
IsWholeAtLeastOne(n) ==
    /\ n.t = "number"
    /\ n.num % n.den = 0
    /\ n.num >= n.den

\* C15: every auto-update write, from the toggle or from the interval
\* field, carries interval_minutes as a whole number of at least 1,
\* whatever the field or the cached settings hold
C15_WriteIntervalWhole ==
    res.put.sent => IsWholeAtLeastOne(res.put.interval_minutes)

-----------------------------------------------------------------------------
(* getPlu applied to a product; arg is the product, a value for each of    *)
(* the six fields getPlu reads.                                            *)

\* the fields in the order of the candidates
PluFields == <<"pluNumber", "plu", "product_key", "productKey", "code", "id">>

\* the values of a field: missing, null, empty, blank, a code as a text and
\* as a number
PluValues ==
    {IvUndefined, IvNull, IvText(<<>>), IvText(<<" ">>), IvText(<<"7">>),
     IvNum(0, 1)}

\* String(x) of a text, a natural number or a boolean
StringOf(x) ==
    CASE x.t = "string" -> x.s
      [] x.t = "number" -> DecimalText(x.num)
      [] x.t = "boolean" ->
            IF x.b THEN <<"t", "r", "u", "e">> ELSE <<"f", "a", "l", "s", "e">>
      [] OTHER -> <<x.t>>

\* the test of candidates.find
IsCandidate(x) ==
    x # IvUndefined /\ x # IvNull /\ Trim(StringOf(x)) # <<>>

\* Array.prototype.find over the candidates from position i on
RECURSIVE find(_, _)
find(candidates, i) ==
    IF i > Len(candidates) THEN IvUndefined
    ELSE IF IsCandidate(candidates[i]) THEN candidates[i]
    ELSE find(candidates, i + 1)

\* found ?? null
OrNull(found) == IF found \in {IvUndefined, IvNull} THEN IvNull ELSE found

\* getPlu whose test lets a blank text through
getPlu_BlankAccepted(product) ==
    LET candidates == [i \in 1..Len(PluFields) |-> product[PluFields[i]]]
        first == {i \in 1..Len(candidates) :
                    /\ candidates[i] \notin {IvUndefined, IvNull}
                    /\ \A j \in 1..(i - 1) :
                          candidates[j] \in {IvUndefined, IvNull}}
    IN  IF first = {} THEN IvNull ELSE candidates[CHOOSE i \in first : TRUE]

getPlu(product) ==
    LET candidates == [i \in 1..Len(PluFields) |-> product[PluFields[i]]]
    IN  OrNull(find(candidates, 1))

PluFieldSet == {PluFields[i] : i \in 1..Len(PluFields)}

PluInit ==
    /\ mode = "plu"
    /\ arg \in [PluFieldSet -> PluValues]
    /\ res = NotCalled
    /\ PagesUnused

PluCall ==
    /\ res = NotCalled
    /\ res' = <<getPlu(arg)>>
    /\ UNCHANGED <<visits, mode, arg, pageVars>>

PluNext == PluCall

SpecPlu == PluInit /\ [][PluNext]_vars

\* the value is missing, null, or a text of white space only
IsBlankValue(x) ==
    \/ x \in {IvUndefined, IvNull}
    \/ x.t = "string" /\ \A i \in 1..Len(x.s) : IsSpace(x.s[i])

\* C16: getPlu returns the value of the first of pluNumber, plu,
\* product_key, productKey, code, id that is neither undefined, null nor a
\* blank text, and null when there is none; a pluNumber that is not blank
\* is returned whatever the other fields hold
C16_FirstNonBlankField ==
    res # NotCalled =>
        /\ \A i \in 1..Len(PluFields) :
              ( /\ ~IsBlankValue(arg[PluFields[i]])
                /\ \A j \in 1..(i - 1) : IsBlankValue(arg[PluFields[j]]) )
                  => res[1] = arg[PluFields[i]]
        /\ (\A i \in 1..Len(PluFields) : IsBlankValue(arg[PluFields[i]]))
              => res[1] = IvNull
        /\ ~IsBlankValue(arg["pluNumber"]) => res[1] = arg["pluNumber"]

\* pluNumber and plu are blank, product_key is 0 and wins over the code "7"
C16_Witness ==
    /\ arg["pluNumber"] = IvText(<<" ">>)
    /\ arg["plu"] = IvNull
    /\ arg["product_key"] = IvNum(0, 1)
    /\ arg["productKey"] = IvText(<<"7">>)
    /\ res = <<IvNum(0, 1)>>

-----------------------------------------------------------------------------
(* The session: the stored token, the route on display and the requests    *)
(* under way.  Here token is the stored token (NoToken or the number of a  *)
(* token the server issued), srv the set of requests sent and not yet      *)
(* answered, visits the number of requests still to be sent, arg whether   *)
(* the token is stored under a key apiJson reads, and res the history:     *)
(* the tokens issued, the tokens a 401 answered, what the caller of the    *)
(* last answered request saw, and whether a 401 is still to be followed   *)
(* by the login view.  getToken, setToken, clearToken and isAuthed are    *)
(* of ../utils/token, a module with one stored token.                     *)

\* the requests of a session
MaxReq == 3

NoToken == 0

NoHeader == <<>>

\* `Bearer ${token}`
Bearer(tok) == <<"Bearer", tok>>

isAuthed(tok) == tok # NoToken

\* a request interceptor that sets the header whatever getToken() returns
requestInterceptor_Always(tok) == Bearer(tok)

\* the Authorization header the request interceptor of http leaves in config
requestInterceptor(tok) == IF tok # NoToken THEN Bearer(tok) ELSE NoHeader

\* authHeaders() of the list page that calls fetch
authHeaders(tok, sharedKey) ==
    IF sharedKey /\ tok # NoToken THEN Bearer(tok) ELSE NoHeader

\* the list page of this build calls apiJson, not http
UsesFetch(b, page) == b = "legacy" /\ page = "devices"

\* the onError of the mutations of this page navigates to /auth on a 401
NavigatesOn401(b, page) == b # "legacy" /\ page = "devices"

\* the request a page or the login form sends now
NewRequest(kind, page) ==
    [kind |-> kind, page |-> page, stored |-> token,
     layer |-> IF UsesFetch(build, page) THEN "fetch" ELSE "http",
     header |-> IF UsesFetch(build, page)
                THEN authHeaders(token, arg.sharedKey)
                ELSE requestInterceptor(token)]

NoAnswer == [status |-> 0, kind |-> "none", page |-> "none", seen |-> NoToken]

\* the route on display after a navigation to a protected page
Protected(page, tok) == IF isAuthed(tok) THEN page ELSE "auth"

SessionInit ==
    /\ mode = "session"
    /\ build \in Builds
    /\ arg \in [sharedKey : BOOLEAN]
    /\ token \in {NoToken, 1}
    /\ route \in {Protected("devices", token), Protected("detail", token)}
    /\ srv = {}
    /\ visits = MaxReq
    /\ res = [issued |-> token, rejected |-> {}, resent |-> FALSE,
              last |-> NoAnswer, due |-> FALSE]
    /\ toast = "none"
    /\ cache = <<>>
    /\ muts = <<>>

\* a request leaves: the header is made, the request is on its way
Send(kind, page) ==
    LET r == NewRequest(kind, page)
    IN  /\ visits > 0
        /\ visits' = visits - 1
        /\ srv' = srv \cup {r}
        /\ res' = [res EXCEPT !.resent =
                      @ \/ (r.header # NoHeader /\ r.header[2] \in res.rejected)]
        /\ UNCHANGED <<mode, arg, build, token, route, cache, muts, toast>>

\* onSubmit of the login form
SubmitLogin == route = "auth" /\ Send("login", "auth")

\* a query of the page on display: on mount, on a retry, on a refetch
SendQuery == route \in {"devices", "detail"} /\ Send("query", route)

\* a mutation of the page on display
SendMutation == route \in {"devices", "detail"} /\ Send("mutation", route)

\* the user follows a link, opens a device, or logs out
Go(page) ==
    /\ page # route
    /\ route' = IF page = "auth" THEN "auth" ELSE Protected(page, token)
    /\ res' = [res EXCEPT !.due = @ /\ route' # "auth"]
    /\ UNCHANGED <<visits, mode, arg, build, token, srv, cache, muts, toast>>

logout ==
    /\ isAuthed(token)
    /\ token' = NoToken
    /\ route' = "auth"
    /\ res' = [res EXCEPT !.due = FALSE]
    /\ UNCHANGED <<visits, mode, arg, build, srv, cache, muts, toast>>

\* the token after the response interceptor of http has seen the status
responseInterceptor(status, tok) == IF status = 401 THEN NoToken ELSE tok

\* the answer to the login request: the token is stored and the list opens,
\* or the catch block shows the message
LoginAnswered(r, status) ==
    LET cleared == responseInterceptor(status, token)
        fresh == res.issued + 1
    IN  /\ r \in srv /\ r.kind = "login"
        /\ srv' = srv \ {r}
        /\ token' = IF status = 200 THEN fresh ELSE cleared
        /\ route' = IF status = 200 THEN Protected("devices", token') ELSE route
        /\ toast' = IF status = 200 THEN toast ELSE "error"
        /\ res' = [res EXCEPT
                     !.issued = IF status = 200 THEN fresh ELSE @,
                     !.rejected = IF status = 401 /\ r.header # NoHeader
                                  THEN @ \cup {r.header[2]} ELSE @,
                     !.last = [status |-> status, kind |-> "login",
                               page |-> "auth",
                               seen |-> IF status = 200 THEN token ELSE cleared],
                     !.due = @ /\ route' # "auth"]
        /\ UNCHANGED <<visits, mode, arg, build, cache, muts>>

\* the answer to a request of a page: the layer handles it, then the page's
\* query shows its error or the mutation's onSuccess / onError runs
PageAnswered(r, status) ==
    LET cleared == IF r.layer = "http"
                   THEN responseInterceptor(status, token)
                   ELSE token
        leaves == /\ status = 401
                  /\ r.kind = "mutation"
                  /\ NavigatesOn401(build, r.page)
    IN  /\ r \in srv /\ r.kind # "login"
        /\ status = 200 => r.header # NoHeader
        /\ srv' = srv \ {r}
        /\ token' = cleared
        /\ route' = IF leaves THEN "auth" ELSE route
        /\ toast' = IF leaves THEN "session"
                    ELSE IF r.kind = "mutation"
                         THEN (IF status = 200 THEN "success" ELSE "error")
                         ELSE toast
        /\ res' = [res EXCEPT
                     !.rejected = IF status = 401 /\ r.header # NoHeader
                                  THEN @ \cup {r.header[2]} ELSE @,
                     !.last = [status |-> status, kind |-> r.kind,
                               page |-> r.page, seen |-> cleared],
                     !.due = (@ \/ status = 401) /\ route' # "auth"]
        /\ UNCHANGED <<visits, mode, arg, build, cache, muts>>

Statuses == {200, 401, 500}

\* the steps the user takes
UserStep ==
    \/ SubmitLogin
    \/ SendMutation
    \/ \E page \in {"auth", "devices", "detail"} : Go(page)
    \/ logout

\* the steps that need no user
Answered ==
    \E r \in srv, status \in Statuses :
        LoginAnswered(r, status) \/ PageAnswered(r, status)

SessionNext == UserStep \/ SendQuery \/ Answered

SpecSession == SessionInit /\ [][SessionNext]_vars

\* every request is answered in the end
SpecSessionLive == SpecSession /\ WF_vars(Answered)

\* C17: when a request is answered 401 the stored token is gone by the time
\* the caller sees the error, and no request sent later carries a token
\* that a 401 answered
C17_TokenClearedOn401 ==
    /\ res.last.status = 401 => res.last.seen = NoToken
    /\ ~res.resent

\* C18: after a 401 answer to a query or a mutation of the list page or of
\* the device page the login view comes on display without a user's step
C18_LoginViewAfter401 == res.due ~> (route = "auth")

\* C19: a request sent through http while a token is stored carries
\* Authorization: Bearer and the token stored when it was sent; one sent
\* while no token is stored carries no Authorization header
C19_HeaderIsStoredToken ==
    \A r \in srv :
        r.layer = "http" =>
            /\ isAuthed(r.stored) => r.header = <<"Bearer", r.stored>>
            /\ ~isAuthed(r.stored) => r.header = <<>>

\* after a login answered with a second token, a request carries it while
\* another, sent before, still carries the first
C19_Witness ==
    /\ token = 2
    /\ \E r \in srv : r.layer = "http" /\ r.header = <<"Bearer", 2>>
    /\ \E r \in srv : r.layer = "http" /\ r.header = <<"Bearer", 1>>

-----------------------------------------------------------------------------
(* extractErrorMessage applied to an error, in its three copies.  A JSON   *)
(* value is a text, a number, null, an array or an object (a sequence of  *)
(* key and value pairs); arg holds the copy and the error.                *)

\* the longest detail array
MaxDetailLen == 2

JArray(a) == [t |-> "array", a |-> a]
JObject(f) == [t |-> "object", f |-> f]

LocKey == <<"l", "o", "c">>
MsgKey == <<"m", "s", "g">>

\* x?.key of a value
Get(x, key) ==
    IF x.t = "object" /\ \E i \in 1..Len(x.f) : x.f[i][1] = key
    THEN x.f[CHOOSE i \in 1..Len(x.f) : x.f[i][1] = key][2]
    ELSE IvUndefined

\* Array.prototype.join of a sequence of texts
RECURSIVE join(_, _)
join(texts, sep) ==
    IF texts = <<>> THEN <<>>
    ELSE IF Len(texts) = 1 THEN texts[1]
    ELSE texts[1] \o sep \o join(Tail(texts), sep)

\* JSON.stringify of a value
RECURSIVE JsonText(_)
JsonText(v) ==
    CASE v.t = "string" -> <<"\"">> \o v.s \o <<"\"">>
      [] v.t = "number" -> DecimalText(v.num)
      [] v.t = "array" ->
            <<"[">> \o join([i \in 1..Len(v.a) |-> JsonText(v.a[i])], <<",">>)
                \o <<"]">>
      [] v.t = "object" ->
            <<"{">>
                \o join([i \in 1..Len(v.f) |->
                            <<"\"">> \o v.f[i][1] \o <<"\"", ":">>
                                \o JsonText(v.f[i][2])], <<",">>)
                \o <<"}">>
      [] OTHER -> <<"n", "u", "l", "l">>

\* the fixed text; its Russian words are written in Latin letters
UnknownError ==
    <<"N", "e", "i", "z", "v", "e", "s", "t", "n", "a", "y", "a", " ",
      "o", "s", "h", "i", "b", "k", "a">>

\* the copies of extractErrorMessage
ErrorCopies == {"part_001", "part_002", "DevicesPage.jsx"}

\* the text a member of the detail array gives, empty when it is dropped
PartOf(copy, x) ==
    LET l == Get(x, LocKey)
        m == Get(x, MsgKey)
        loc == IF l.t = "array"
               THEN join([i \in 1..Len(l.a) |-> StringOf(l.a[i])], <<".">>)
               ELSE <<>>
        msg == IF m.t = "string" /\ m.s # <<>> THEN m.s ELSE <<>>
    IN  IF loc # <<>> /\ msg # <<>> THEN loc \o <<":", " ">> \o msg
        ELSE IF msg # <<>> THEN msg
        ELSE IF copy = "DevicesPage.jsx" THEN JsonText(x)
        ELSE <<>>

\* detail.map(...).filter(Boolean)
PartsOf(copy, detail) ==
    SelectSeq([i \in 1..Len(detail.a) |-> PartOf(copy, detail.a[i])],
              LAMBDA p : p # <<>>)

\* the error as the function reads it: err.response.status,
\* err.response.data and err.message
ErrStatus(err) == err.status
ErrData(err) == err.data
ErrMessage(err) == err.message

\* the last two steps: err.message, then the fixed text
MessageOrUnknown(err) ==
    IF ErrMessage(err).t = "string" /\ ErrMessage(err).s # <<>>
    THEN ErrMessage(err).s
    ELSE UnknownError

\* an extractErrorMessage that looks at err.message first
extractErrorMessage_MessageFirst(copy, err) ==
    [status |-> ErrStatus(err), message |-> MessageOrUnknown(err)]

\* extractErrorMessage that joins the parts without asking whether any is
\* left
extractErrorMessage_PartsUntested(copy, err) ==
    LET data == ErrData(err)
        detail == Get(data, <<"d", "e", "t", "a", "i", "l">>)
        parts == PartsOf(copy, detail)
        message ==
            IF detail.t = "string" /\ Trim(detail.s) # <<>>
            THEN Trim(detail.s)
            ELSE IF detail.t = "array" /\ Len(detail.a) > 0
            THEN join(parts, <<";", " ">>)
            ELSE IF detail.t \in {"array", "object"}
            THEN JsonText(detail)
            ELSE IF copy = "part_001" /\ data.t = "string" /\ Trim(data.s) # <<>>
            THEN Trim(data.s)
            ELSE MessageOrUnknown(err)
    IN  [status |-> ErrStatus(err), message |-> message]

extractErrorMessage(copy, err) ==
    LET data == ErrData(err)
        detail == Get(data, <<"d", "e", "t", "a", "i", "l">>)
        parts == PartsOf(copy, detail)
        message ==
            IF detail.t = "string" /\ Trim(detail.s) # <<>>
            THEN Trim(detail.s)
            ELSE IF detail.t = "array" /\ Len(detail.a) > 0 /\ parts # <<>>
            THEN join(parts, <<";", " ">>)
            ELSE IF detail.t \in {"array", "object"}
            THEN JsonText(detail)
            ELSE IF copy = "part_001" /\ data.t = "string" /\ Trim(data.s) # <<>>
            THEN Trim(data.s)
            ELSE MessageOrUnknown(err)
    IN  [status |-> ErrStatus(err), message |-> message]

\* the members of a detail array: loc missing, empty, a path or not an
\* array; msg missing, empty or a text
DetailItems ==
    {JObject(l \o m) :
        l \in {<<>>,
               <<<<LocKey, JArray(<<>>)>>>>,
               <<<<LocKey, JArray(<<IvText(<<"b">>), IvText(<<"p">>)>>)>>>>,
               <<<<LocKey, IvText(<<"b">>)>>>>},
        m \in {<<>>, <<<<MsgKey, IvText(<<>>)>>>>, <<<<MsgKey, IvText(<<"m">>)>>>>}}

\* sequences of members up to n long
RECURSIVE ItemsUpTo(_)
ItemsUpTo(n) ==
    IF n = 0 THEN {<<>>}
    ELSE LET shorter == ItemsUpTo(n - 1)
         IN  shorter \cup {Append(a, x) : a \in shorter, x \in DetailItems}

\* the values of data.detail
Details ==
    {IvNull, IvNum(5, 1), IvText(<<>>), IvText(<<" ">>), IvText(<<" ", "d", " ">>),
     JObject(<<<<<<"c">>, IvText(<<"x">>)>>>>)}
        \cup {JArray(a) : a \in ItemsUpTo(MaxDetailLen)}

\* err.response.data: missing, a text body, or an object with or without
\* detail
ErrorBodies ==
    {IvUndefined, IvText(<<>>), IvText(<<" ">>), IvText(<<"t">>), JObject(<<>>)}
        \cup {JObject(<<<<<<"d", "e", "t", "a", "i", "l">>, d>>>>) : d \in Details}

ErrorInit ==
    /\ mode = "error"
    /\ \E copy \in ErrorCopies, data \in ErrorBodies,
          message \in {IvUndefined, IvText(<<>>), IvText(<<"e">>)},
          status \in {IvUndefined, IvNum(422, 1)} :
          arg = [copy |-> copy,
                 err |-> [status |-> status, data |-> data, message |-> message]]
    /\ res = NotCalled
    /\ PagesUnused

ErrorCall ==
    /\ res = NotCalled
    /\ res' = <<extractErrorMessage(arg.copy, arg.err)>>
    /\ UNCHANGED <<visits, mode, arg, pageVars>>

ErrorNext == ErrorCall

SpecError == ErrorInit /\ [][ErrorNext]_vars

\* the detail of the error, undefined when there is none
DetailOf(err) == Get(err.data, <<"d", "e", "t", "a", "i", "l">>)

\* every member of the array has a path and a text
IsWellFormed(detail) ==
    /\ detail.t = "array" /\ Len(detail.a) > 0
    /\ \A i \in 1..Len(detail.a) :
          /\ Get(detail.a[i], LocKey).t = "array"
          /\ Len(Get(detail.a[i], LocKey).a) > 0
          /\ Get(detail.a[i], MsgKey) = IvText(<<"m">>)

\* "loc: msg; loc: msg" of n members with the path b.p and the text m
RECURSIVE Joined(_)
Joined(n) ==
    IF n = 1 THEN <<"b", ".", "p", ":", " ", "m">>
    ELSE <<"b", ".", "p", ":", " ", "m", ";", " ">> \o Joined(n - 1)

\* the message comes from the detail: it is neither the exception's message
\* nor the fixed text nor the body
FromDetail(message) ==
    message \notin {<<"e">>, UnknownError, <<"t">>, <<>>}

\* what the chain gives before the exception's message is reached; body says
\* whether a text body is a source of its own
ChainHolds(body) ==
    LET err == arg.err
        detail == DetailOf(err)
        message == res[1].message
    IN  IF detail.t = "string" /\ \E i \in 1..Len(detail.s) : ~IsSpace(detail.s[i])
        THEN message = <<"d">>
        ELSE IF IsWellFormed(detail)
        THEN message = Joined(Len(detail.a))
        ELSE IF detail.t \in {"array", "object"}
        THEN FromDetail(message)
        ELSE IF body /\ err.data = IvText(<<"t">>)
        THEN message = <<"t">>
        ELSE IF err.message = IvText(<<"e">>)
        THEN message = <<"e">>
        ELSE message = UnknownError

\* C20 as stated: the message is the non-blank string detail; else the
\* detail array joined as "loc: msg; loc: msg"; else the JSON text of an
\* object detail; else the exception's message; else the fixed text
C20_PriorityChain == res # NotCalled => ChainHolds(FALSE)

\* C20, amended: the same chain, with one more source in the copy of the
\* device page: a non-blank text body comes after the detail and before the
\* exception's message
C20_PriorityChainWithBody ==
    res # NotCalled =>
        /\ ChainHolds(arg.copy = "part_001")
        /\ res[1].status = arg.err.status
        /\ DetailOf(arg.err) = JObject(<<<<<<"c">>, IvText(<<"x">>)>>>>)
              => res[1].message =
                    <<"{", "\"", "c", "\"", ":", "\"", "x", "\"", "}">>

\* a 422 with two well-formed members and an exception message
C20_Witness ==
    /\ res # NotCalled
    /\ IsWellFormed(DetailOf(arg.err))
    /\ Len(DetailOf(arg.err).a) = 2
    /\ arg.err.message = IvText(<<"e">>)
    /\ res[1].message =
          <<"b", ".", "p", ":", " ", "m", ";", " ", "b", ".", "p", ":", " ", "m">>

-----------------------------------------------------------------------------
(* The failure of a mutation's request on the pages.                       *)

-----------------------------------------------------------------------------
(* The form that adds a device on the list page: validate and the          *)
(* mutationFn of createM, in the three copies of the page.  Texts are      *)
(* sequences of characters, numbers are fractions.                         *)

\* the copies of the list page: the page of src/src, and the two files of
\* src/unnamed/part_002 (the first talks to the server with fetch)
ListPages == {"DevicesPage.jsx", "part_002:1", "part_002:358"}

AsciiLetters ==
    {"a", "b", "c", "d", "e", "f", "g", "h", "i", "j", "k", "l", "m",
     "n", "o", "p", "q", "r", "s", "t", "u", "v", "w", "x", "y", "z",
     "A", "B", "C", "D", "E", "F", "G", "H", "I", "J", "K", "L", "M",
     "N", "O", "P", "Q", "R", "S", "T", "U", "V", "W", "X", "Y", "Z"}

\* 25[0-5]|2[0-4]\d|1?\d?\d, anchored
IsOctet(t) ==
    /\ Len(t) \in 1..3
    /\ \A i \in 1..Len(t) : IsDigit(t[i])
    /\ Len(t) = 3 =>
          \/ t[1] = "1"
          \/ t[1] = "2" /\ t[2] \in {"0", "1", "2", "3", "4"}
          \/ t[1] = "2" /\ t[2] = "5" /\ t[3] \in {"0", "1", "2", "3", "4", "5"}

\* ^octet(\.octet){3}$
ipv4(s) ==
    LET dots == {i \in 1..Len(s) : s[i] = "."}
        cut(k) == IF k = 0 THEN 0
                  ELSE IF k = 4 THEN Len(s) + 1
                  ELSE CHOOSE i \in dots : Cardinality({j \in dots : j < i}) = k - 1
    IN  /\ Cardinality(dots) = 3
        /\ \A k \in 1..4 : IsOctet(SubSeq(s, cut(k - 1) + 1, cut(k) - 1))

\* ^[a-zA-Z0-9.-]+$
hostname(s) ==
    /\ s # <<>>
    /\ \A i \in 1..Len(s) : IsDigit(s[i]) \/ s[i] \in AsciiLetters \/ s[i] \in {".", "-"}

isValidIp(page, ip) ==
    LET s == Trim(ip)
    IN  IF page = "part_002:1" THEN ipv4(s) \/ hostname(s) ELSE ipv4(s)

\* parsePort: Number(v), truncated when finite
parsePort(v) ==
    LET n == ToNumber(v)
    IN  IF ~isFinite(n) THEN IvNaN ELSE IvNum(trunc(n), 1)

\* the number validate tests and the payload carries
PortNumber(page, v) == IF page = "part_002:1" THEN ToNumber(v) ELSE parsePort(v)

NameError == "Ukazhite imya ustroistva"
IpEmptyError == "Ukazhite IP-adres"
IpFormatError == "Nekorrektnyi IP-adres"
PortError == "Port dolzhen byt' v diapazone 1..65535"
PasswordError == "Parol' obyazatelen"
NoErrors == [name |-> "", ip |-> "", port |-> "", password |-> ""]

MaxPort == 65535

\* the object e that validate builds
FormErrors(page, form) ==
    LET portNum == PortNumber(page, form.port)
    IN  [name |-> IF Trim(form.name) = <<>> THEN NameError ELSE "",
         ip |-> IF Trim(form.ip) = <<>> THEN IpEmptyError
                ELSE IF ~isValidIp(page, form.ip) THEN IpFormatError ELSE "",
         port |-> IF \/ ~isFinite(portNum)
                     \/ portNum.num <= 0
                     \/ portNum.num > MaxPort * portNum.den
                  THEN PortError ELSE "",
         password |-> IF page = "part_002:358" /\ Trim(form.password) = <<>>
                      THEN PasswordError ELSE ""]

validate(page, form) == FormErrors(page, form) = NoErrors

NoPayload == [sent |-> FALSE]

\* the body of POST /devices, or nothing when mutationFn throws
createPayload(page, form) ==
    LET port == PortNumber(page, form.port)
        password == IF page = "part_002:1" THEN form.password ELSE Trim(form.password)
    IN  IF FormErrors(page, form) # NoErrors THEN NoPayload
        ELSE IF page # "part_002:1" /\ ~isFinite(port) THEN NoPayload
        ELSE IF page = "part_002:358" /\ password = <<>> THEN NoPayload
        ELSE [sent |-> TRUE, name |-> Trim(form.name), ip |-> Trim(form.ip),
              port |-> port, password |-> password]

NameTexts == {<<>>, <<" ">>, <<"a">>, <<" ", "a", " ">>}

IpTexts ==
    {<<>>,
     <<"1", ".", "1", ".", "1", ".", "1">>,
     <<" ", "1", "9", "9", ".", "2", "5", "5", ".", "0", ".", "9", " ">>,
     <<"2", "5", "6", ".", "1", ".", "1", ".", "1">>,
     <<"1", ".", "1", ".", "1">>,
     <<"1", ".", "1", ".", ".", "1">>,
     <<"a", ".", "b">>,
     <<"a", " ", "b">>}

\* what the field of type number can hold
PortTexts ==
    {<<>>, <<"0">>, <<"0", ".", "5">>, <<"1">>, <<"8", "0", ".", "5">>,
     <<"-", "1">>, <<"6", "5", "5", "3", "5">>,
     <<"6", "5", "5", "3", "5", ".", "5">>, <<"6", "5", "5", "3", "6">>}

DefaultPort == 1111

PasswordTexts == {<<>>, <<" ">>, <<"1", "2", "3", "4">>}

\* resetForm, as openModal leaves the form
CreateInit ==
    /\ mode = "create"
    /\ \E page \in ListPages :
          arg = [page |-> page,
                 form |-> [name |-> <<>>, ip |-> <<>>,
                           port |-> IvNum(DefaultPort, 1),
                           password |-> IF page = "part_002:358"
                                        THEN <<"1", "2", "3", "4">> ELSE <<>>]]
    /\ res = [errors |-> NoErrors, post |-> NoPayload]
    /\ PagesUnused

\* onChange of a field of the form; no request leaves the page
ChangeField(f, text) ==
    /\ arg' = [arg EXCEPT !.form[f] = IF f = "port" THEN IvText(text) ELSE text]
    /\ res' = [res EXCEPT !.post = NoPayload]
    /\ UNCHANGED <<visits, mode, pageVars>>

\* the button of the modal: createM.mutate() runs validate and, when it
\* passes, posts the payload
SubmitCreate ==
    /\ res' = [errors |-> FormErrors(arg.page, arg.form),
               post |-> createPayload(arg.page, arg.form)]
    /\ UNCHANGED <<visits, mode, arg, pageVars>>

CreateNext ==
    \/ \E text \in NameTexts : ChangeField("name", text)
    \/ \E text \in IpTexts : ChangeField("ip", text)
    \/ \E text \in PortTexts : ChangeField("port", text)
    \/ \E text \in PasswordTexts : ChangeField("password", text)
    \/ SubmitCreate

SpecCreate == CreateInit /\ [][CreateNext]_vars

IsWholeNumber(n) == isFinite(n) /\ n.num % n.den = 0

\* C22: a request that adds a device leaves the page only with a name that
\* is not blank, an address that passes the format check and a port that
\* is a whole number from 1 to 65535; when validate fails nothing is sent
\* and an error is set on a field
C22_CreateOnlyValidated ==
    [][SubmitCreate =>
          /\ res'.post.sent =>
                /\ Trim(arg.form.name) # <<>>
                /\ isValidIp(arg.page, arg.form.ip)
                /\ IsWholeNumber(res'.post.port)
                /\ res'.post.port.num \in 1..MaxPort
                /\ res'.errors = NoErrors
          /\ ~validate(arg.page, arg.form) =>
                /\ ~res'.post.sent
                /\ \E f \in DOMAIN NoErrors : res'.errors[f] # ""]_vars


-----------------------------------------------------------------------------
(* Requests of one kind of mutation that are outstanding together.         *)

\* the requests of a kind the server has not answered yet
InFlight(kind) == {i \in Issued : muts[i].kind = kind /\ muts[i].phase = "pending"}

\* C23: of each kind of mutation at most one request is outstanding at any
\* time, the controls that issue it being disabled while one is
C23_OneInFlightPerKind ==
    \A kind \in Kinds : Cardinality(InFlight(kind)) <= 1


-----------------------------------------------------------------------------
(* The query cache across sessions: App's effect, the login of AuthPage,   *)
(* logout of Layout and the response interceptor.  token is the user the   *)
(* stored token belongs to, cache[k] the user whose data the query k       *)
(* holds.                                                                  *)

\* users of one browser tab
MaxUsers == 2
Users == 1..MaxUsers

NoUser == NoToken

EmptyCache == [k \in Keys |-> NoUser]

\* the tab is opened: the QueryClient is new, a token may be stored
CacheInit ==
    /\ mode = "cache"
    /\ token \in {NoToken} \cup Users
    /\ route \in {"auth", Protected("list", token), Protected("detail", token)}
    /\ cache = EmptyCache
    /\ res = [mounted |-> FALSE]
    /\ arg = <<>>
    /\ visits = 0
    /\ build = "none"
    /\ srv = 0
    /\ muts = <<>>
    /\ toast = <<>>

\* the effect of App, run once after the first render
AppEffect ==
    /\ ~res.mounted
    /\ res' = [mounted |-> TRUE]
    /\ cache' = IF ~isAuthed(token) THEN EmptyCache ELSE cache
    /\ UNCHANGED <<visits, mode, arg, build, token, route, srv, muts, toast>>

\* onSubmit of AuthPage in login mode, answered 2xx for the user u
LoginAs(u) ==
    /\ res.mounted
    /\ route = "auth"
    /\ token' = u
    /\ route' = "list"
    /\ UNCHANGED <<visits, pureVars, build, srv, cache, muts, toast>>

\* a link or the address bar, through ProtectedRoute
Visit(page) ==
    /\ res.mounted
    /\ route' = Protected(page, token)
    /\ route' # route
    /\ UNCHANGED <<visits, pureVars, build, token, srv, cache, muts, toast>>

\* a query of the page on display is answered 2xx with the data of the
\* user of the token
QueryAnswered(k) ==
    /\ res.mounted
    /\ isAuthed(token)
    /\ k \in PageKeys(route)
    /\ cache' = [cache EXCEPT ![k] = token]
    /\ UNCHANGED <<visits, pureVars, build, token, route, srv, muts, toast>>

\* a query of the page on display is answered 401: the response
\* interceptor clears the token and rejects
QueryRejected(k) ==
    /\ res.mounted
    /\ isAuthed(token)
    /\ k \in PageKeys(route)
    /\ token' = NoToken
    /\ UNCHANGED <<visits, pureVars, build, route, srv, cache, muts, toast>>

\* logout of Layout
LayoutLogout ==
    /\ res.mounted
    /\ isAuthed(token)
    /\ token' = NoToken
    /\ route' = "auth"
    /\ UNCHANGED <<visits, pureVars, build, srv, cache, muts, toast>>

CacheNext ==
    \/ AppEffect
    \/ \E u \in Users : LoginAs(u)
    \/ \E page \in {"auth", "list", "detail"} : Visit(page)
    \/ \E k \in Keys : QueryAnswered(k)
    \/ \E k \in Keys : QueryRejected(k)
    \/ LayoutLogout

SpecCache == CacheInit /\ [][CacheNext]_vars

\* C24: the cache holds no data of a session that has ended: without a
\* token it is empty, and with one it holds data of that user only
C24_NoDataOfEndedSession ==
    \A k \in Keys : cache[k] \in {NoUser, token}


-----------------------------------------------------------------------------
(* What saveEdit sends, and the error texts the edit form stores.          *)

\* the form passes the checks of saveEdit
EditChecked ==
    /\ IsPluNumber(Number(res.edit.plu))
    /\ \A f \in DateFields : EmptyOrValidDate(res.edit[f])

\* C25: saveEdit sends a PATCH request exactly when the PLU of the form is
\* a finite number above 0 and both dates are empty or DD-MM-YY texts of a
\* day of the calendar; the request carries that number and those two
\* texts and the modal closes; otherwise nothing is sent, the modal stays
\* open and the texts of the form stay as they are
C25_PatchOnlyChecked ==
    [][saveEdit =>
          /\ res'.out.patch.sent <=> EditChecked
          /\ EditChecked =>
                /\ res'.out.patch.plu = Number(res.edit.plu)
                /\ \A f \in DateFields : res'.out.patch[f] = res.edit[f]
                /\ ~res'.editOpen
          /\ ~EditChecked =>
                /\ res'.editOpen
                /\ res'.edit = res.edit
                /\ res'.out.toast # "none"]_vars

\* a request was sent with a date and an empty date
C25_Witness ==
    /\ res.out.patch.sent
    /\ res.out.patch.plu = JsNumber(7)
    /\ res.out.patch.manufactureDate = FmtDDMMYY(1, 1, 26)
    /\ res.out.patch.sellByDate = <<>>
    /\ ~res.editOpen

\* C27: in every state of the edit form the error text stored for a date
\* field is dateErrorText of the text the field holds
C27_ErrorsFollowFields ==
    \A f \in DateFields : res.editErrors[f] = dateErrorText(res.edit[f])

\* a date that rolls over is in a field, with its error, next to a field
\* without one
C27_Witness ==
    /\ res.editOpen
    /\ res.edit.sellByDate = FmtDDMMYY(31, 2, 26)
    /\ res.editErrors.sellByDate = DateFormatError
    /\ res.edit.manufactureDate = <<"1">>
    /\ res.editErrors.manufactureDate = DateFormatError


-----------------------------------------------------------------------------
(* AuthPage: the form of login and registration and its onSubmit.  The     *)
(* two copies of the page differ in texts only.                            *)

\* /^[^\s@]+@[^\s@]+\.[^\s@]+$/ on the trimmed text
isValidEmail(v) ==
    LET s == Trim(v)
        ats == {i \in 1..Len(s) : s[i] = "@"}
        at == CHOOSE i \in ats : TRUE
    IN  /\ Cardinality(ats) = 1
        /\ \A i \in 1..Len(s) : ~IsSpace(s[i])
        /\ at > 1
        /\ \E i \in (at + 2)..(Len(s) - 1) : s[i] = "."

MinPasswordLen == 8
MaxPasswordBytes == 72

\* validatePassword, for texts of ASCII characters; "" when it accepts
validatePassword(p, formMode) ==
    IF Len(p) < MinPasswordLen THEN "Parol' dolzhen byt' ne koroche 8 simvolov"
    ELSE IF Len(p) > MaxPasswordBytes THEN "Parol' slishkom dlinnyi"
    ELSE IF \E i \in 1..Len(p) : IsSpace(p[i])
    THEN "Parol' ne dolzhen soderzhat' probely"
    ELSE IF /\ formMode = "register"
            /\ ~ /\ \E i \in 1..Len(p) : p[i] \in AsciiLetters
                 /\ \E i \in 1..Len(p) : IsDigit(p[i])
    THEN "Parol' dolzhen soderzhat' bukvy i tsifry"
    ELSE ""

emailErr(f) ==
    IF Trim(f.email) = <<>> THEN "Vvedite email"
    ELSE IF ~isValidEmail(f.email) THEN "Nekorrektnyi email" ELSE ""

pwErr(f) ==
    IF f.password = <<>> THEN "Vvedite parol'"
    ELSE validatePassword(f.password, f.mode)

pw2Err(f) ==
    IF f.mode # "register" THEN ""
    ELSE IF f.password2 = <<>> THEN "Povtorite parol'"
    ELSE IF f.password2 # f.password THEN "Paroli ne sovpadayut" ELSE ""

canSubmit(f) ==
    /\ emailErr(f) = "" /\ pwErr(f) = ""
    /\ ~(f.mode = "register" /\ pw2Err(f) # "")

EmailTexts ==
    {<<>>, <<"a", "@", "b", ".", "c">>, <<" ", "a", "@", "b", ".", "c">>,
     <<"a", "@", "b">>, <<"a", " ", "@", "b", ".", "c">>}

PasswordInputs ==
    {<<>>,
     <<"a", "b", "c", "d", "e", "f", "g", "h">>,
     <<"a", "b", "c", "d", "e", "f", "g", "1">>,
     <<"a", "b", "c", " ", "e", "f", "g", "1">>,
     <<"a", "b", "c", "1">>}

NoAuthRequest == [kind |-> "none", email |-> <<>>, password |-> <<>>]

\* useState of AuthPage
FreshAuthPage ==
    [mode |-> "login", email |-> <<>>, password |-> <<>>, password2 |-> <<>>,
     loading |-> FALSE, pending |-> NoAuthRequest]

\* the token the server issues
IssuedToken == 1

AuthInit ==
    /\ mode = "authpage"
    /\ arg = <<>>
    /\ res = FreshAuthPage
    /\ token \in {NoToken, IssuedToken}
    /\ route = "auth"
    /\ toast = "none"
    /\ visits = 0
    /\ build = "none"
    /\ srv = 0
    /\ cache = <<>>
    /\ muts = <<>>

\* the two tabs
SetMode(m) ==
    /\ route = "auth"
    /\ res' = IF m = "login"
              THEN [res EXCEPT !.mode = "login", !.password2 = <<>>]
              ELSE [res EXCEPT !.mode = "register"]
    /\ UNCHANGED <<visits, mode, arg, pageVars>>

\* onChange of the three fields
TypeField(f, text) ==
    /\ route = "auth"
    /\ f = "password2" => res.mode = "register"
    /\ res' = [res EXCEPT ![f] = text]
    /\ UNCHANGED <<visits, mode, arg, pageVars>>

\* onSubmit that does not test canSubmit
onSubmit_Unchecked ==
    /\ route = "auth"
    /\ ~res.loading
    /\ res' = [res EXCEPT !.loading = TRUE,
                          !.pending = [kind |-> res.mode,
                                       email |-> Trim(res.email),
                                       password |-> res.password]]
    /\ UNCHANGED <<visits, mode, arg, build, token, route, srv, cache, muts, toast>>

\* onSubmit up to its await; the button that submits is disabled while
\* loading
onSubmit ==
    /\ route = "auth"
    /\ ~res.loading
    /\ IF ~canSubmit(res)
       THEN /\ toast' = "error"
            /\ UNCHANGED res
       ELSE /\ res' = [res EXCEPT !.loading = TRUE,
                                  !.pending = [kind |-> res.mode,
                                               email |-> Trim(res.email),
                                               password |-> res.password]]
            /\ UNCHANGED toast
    /\ UNCHANGED <<visits, mode, arg, build, token, route, srv, cache, muts>>

\* onSubmit from its await on: the request is answered with the status,
\* 0 for no answer at all; a 401 passes the response interceptor first
AuthAnswered(status) ==
    /\ res.pending.kind # "none"
    /\ IF status = 200 /\ res.pending.kind = "register"
       THEN /\ res' = [res EXCEPT !.mode = "login", !.password = <<>>,
                                  !.password2 = <<>>, !.loading = FALSE,
                                  !.pending = NoAuthRequest]
            /\ toast' = "success"
            /\ UNCHANGED <<token, route>>
       ELSE IF status = 200
       THEN /\ token' = IssuedToken
            /\ route' = "list"
            /\ res' = [res EXCEPT !.loading = FALSE, !.pending = NoAuthRequest]
            /\ UNCHANGED toast
       ELSE /\ token' = responseInterceptor(status, token)
            /\ toast' = "error"
            /\ res' = [res EXCEPT !.loading = FALSE, !.pending = NoAuthRequest]
            /\ UNCHANGED route
    /\ UNCHANGED <<visits, mode, arg, build, srv, cache, muts>>

\* the toast is closed
AuthToastClosed ==
    /\ toast # "none"
    /\ toast' = "none"
    /\ UNCHANGED <<visits, pureVars, build, token, route, srv, cache, muts>>

\* the user comes back to /auth: the page is mounted anew
BackToAuth ==
    /\ route = "list"
    /\ route' = "auth"
    /\ res' = FreshAuthPage
    /\ toast' = "none"
    /\ UNCHANGED <<visits, mode, arg, build, token, srv, cache, muts>>

AuthStatuses == {0, 200, 401, 422, 500}

AuthNext ==
    \/ \E m \in {"login", "register"} : SetMode(m)
    \/ \E text \in EmailTexts : TypeField("email", text)
    \/ \E f \in {"password", "password2"}, text \in PasswordInputs : TypeField(f, text)
    \/ onSubmit
    \/ \E status \in AuthStatuses : AuthAnswered(status)
    \/ AuthToastClosed
    \/ BackToAuth

SpecAuth == AuthInit /\ [][AuthNext]_vars

\* C26: on the auth page a token is stored only by the step that receives
\* the 2xx answer of a login request, which also goes to /devices; the 2xx
\* answer of a registration stores no token, switches to login mode and
\* empties both password fields; a failed request stores no token and
\* leaves the mode as it is; and a request is outstanding only for a form
\* that was valid when it was submitted
C26_TokenOnlyAfterLogin ==
    [][/\ (token' # token /\ token' # NoToken) =>
              /\ res.pending.kind = "login"
              /\ AuthAnswered(200)
              /\ route' = "list"
       /\ (res.pending.kind = "register" /\ AuthAnswered(200)) =>
              /\ token' = token
              /\ res'.mode = "login"
              /\ res'.password = <<>> /\ res'.password2 = <<>>
       /\ \A status \in AuthStatuses \ {200} :
              AuthAnswered(status) =>
                  /\ token' \in {token, NoToken}
                  /\ res'.mode = res.mode
       /\ res'.pending # res.pending /\ res'.pending # NoAuthRequest =>
              /\ canSubmit(res)
              /\ res'.pending.kind = res.mode
              /\ isValidEmail(res'.pending.email)
              /\ validatePassword(res'.pending.password, res.mode) = ""]_vars

\* a registration was answered 2xx and the page is in login mode with empty
\* passwords and no token
C26_Witness ==
    /\ toast = "success"
    /\ res.mode = "login"
    /\ res.email = <<" ", "a", "@", "b", ".", "c">>
    /\ res.password = <<>>
    /\ token = NoToken


-----------------------------------------------------------------------------
(* The message of extractErrorMessage as a text.                           *)

\* C28: for every error, whatever its body, detail and message,
\* extractErrorMessage returns a message that is a text of at least one
\* character
C28_MessageNeverEmpty ==
    res # NotCalled =>
        /\ res[1].message \in Seq(STRING)
        /\ res[1].message # <<>>

\* a detail array none of whose members gives a part, without a message of
\* the exception
C28_Witness ==
    /\ res # NotCalled
    /\ DetailOf(arg.err) = JArray(<<JObject(<<<<MsgKey, IvText(<<>>)>>>>)>>)
    /\ arg.err.message = IvUndefined
    /\ arg.copy = "part_001"
    /\ Len(res[1].message) > 2


-----------------------------------------------------------------------------
(* The auto-update card with its server: the writes of the toggle and of   *)
(* the interval field, their answers and the refetch of the settings.      *)
(* Requests are answered in the order they were sent, and none fails.      *)

\* PUT requests of one behaviour
MaxPuts == 3

\* what the user types into the interval field
TypedIntervals == {<<"5">>, <<"1", "5">>}

SettingsInit ==
    /\ mode = "settings"
    /\ \E page \in DetailPages, enabled \in BOOLEAN :
          LET settings == [enabled |-> enabled, interval_minutes |-> IvNum(60, 1)]
          IN  /\ arg = [page |-> page]
              /\ res = [chosen |-> settings, server |-> settings,
                        data |-> settings, puts |-> <<>>, issued |-> 0,
                        awaited |-> {}, refetch |-> FALSE]
    /\ PagesUnused

\* autoM.isPending: the last mutation of the page is not settled
autoPending ==
    \/ \E i \in 1..Len(res.puts) : res.puts[i].id = res.issued
    \/ res.issued \in res.awaited

\* autoM.mutate(body)
PutSettings(body) ==
    [res EXCEPT !.issued = @ + 1,
                !.puts = Append(@, [id |-> res.issued + 1, body |-> body])]

\* onChange of the YesNoToggle, disabled while autoM is pending
ToggleEnabled(enabled) ==
    /\ res.issued < MaxPuts
    /\ ~autoPending
    /\ res' = [PutSettings([enabled |-> enabled,
                            interval_minutes |->
                                BodyInterval(arg.page, res.data.interval_minutes)])
                  EXCEPT !.chosen.enabled = enabled]
    /\ UNCHANGED <<visits, mode, arg, pageVars>>

\* onChange of the interval field
EditInterval(text) ==
    /\ res.issued < MaxPuts
    /\ res' = [PutSettings([enabled |-> res.data.enabled,
                            interval_minutes |->
                                BodyInterval(arg.page, IvText(text))])
                  EXCEPT !.chosen.interval_minutes =
                            BodyInterval(arg.page, IvText(text))]
    /\ UNCHANGED <<visits, mode, arg, pageVars>>

\* the server applies the oldest PUT and answers 2xx; onSuccess invalidates
\* the settings, which starts their refetch, and in the copy of part_001
\* waits for it
PutAnswered ==
    /\ res.puts # <<>>
    /\ res' = [res EXCEPT !.server = Head(res.puts).body,
                          !.puts = Tail(@),
                          !.refetch = TRUE,
                          !.awaited = IF arg.page = "part_001"
                                      THEN @ \cup {Head(res.puts).id} ELSE @]
    /\ UNCHANGED <<visits, mode, arg, pageVars>>

\* GET /devices/{id}/auto-update is answered
SettingsRefetched ==
    /\ res.refetch
    /\ res' = [res EXCEPT !.data = res.server, !.refetch = FALSE, !.awaited = {}]
    /\ UNCHANGED <<visits, mode, arg, pageVars>>

SettingsNext ==
    \/ \E enabled \in BOOLEAN : ToggleEnabled(enabled)
    \/ \E text \in TypedIntervals : EditInterval(text)
    \/ PutAnswered
    \/ SettingsRefetched

SpecSettings == SettingsInit /\ [][SettingsNext]_vars

\* no request is outstanding
SettingsQuiet == res.puts = <<>> /\ ~res.refetch /\ res.awaited = {}

\* C29: once every request is answered, the settings of the server are the
\* enabled value the user chose last and the interval the user entered last
C29_NoLostUpdate ==
    SettingsQuiet => res.server = res.chosen


-----------------------------------------------------------------------------
(* The flash "synchronised" of the device page: flashSynced, its timer,    *)
(* the cleanup on unmount and onSuccess of uploadM.  A timer is the        *)
(* number setTimeout returned; ref is syncedTimerRef.current, 0 for null.  *)

\* pushes to the device in one behaviour
MaxUploads == 4

NoTimer == 0

FlashInit ==
    /\ mode = "flash"
    /\ \E page \in DetailPages : arg = [page |-> page]
    /\ res = [mounted |-> TRUE, syncedFlash |-> FALSE, ref |-> NoTimer,
              timers |-> {}, started |-> 0, uploads |-> 0, isPending |-> FALSE]
    /\ PagesUnused

\* flashSynced; setSyncedFlash has no effect once the page is unmounted
flashSynced(r) ==
    [r EXCEPT !.timers = (IF r.ref # NoTimer THEN @ \ {r.ref} ELSE @)
                            \cup {r.started + 1},
              !.syncedFlash = r.mounted,
              !.ref = r.started + 1,
              !.started = @ + 1]

\* the button that pushes the cache, disabled while uploadM is pending
Upload ==
    /\ res.mounted
    /\ ~res.isPending
    /\ res.uploads < MaxUploads
    /\ res' = [res EXCEPT !.isPending = TRUE, !.uploads = @ + 1]
    /\ UNCHANGED <<visits, mode, arg, pageVars>>

\* onSuccess of uploadM, which useMutation also runs when the page is gone
UploadSucceeds ==
    /\ res.isPending
    /\ res' = [flashSynced(res) EXCEPT !.isPending = FALSE]
    /\ UNCHANGED <<visits, mode, arg, pageVars>>

\* onError of uploadM
UploadFails ==
    /\ res.isPending
    /\ res' = [res EXCEPT !.isPending = FALSE]
    /\ UNCHANGED <<visits, mode, arg, pageVars>>

\* the callback of setTimeout runs 2500 ms later
TimerFires(t) ==
    /\ t \in res.timers
    /\ res' = [res EXCEPT !.timers = @ \ {t}, !.syncedFlash = FALSE,
                          !.ref = NoTimer]
    /\ UNCHANGED <<visits, mode, arg, pageVars>>

\* the page is left: the cleanup of the effect, which the copy of
\* src/src/devices/DeviceDetailPage.jsx does not have
UnmountPage ==
    /\ res.mounted
    /\ res' = IF arg.page = "part_001" /\ res.ref # NoTimer
              THEN [res EXCEPT !.mounted = FALSE, !.syncedFlash = FALSE,
                               !.timers = @ \ {res.ref}, !.ref = NoTimer]
              ELSE [res EXCEPT !.mounted = FALSE, !.syncedFlash = FALSE]
    /\ UNCHANGED <<visits, mode, arg, pageVars>>

FlashNext ==
    \/ Upload
    \/ UploadSucceeds
    \/ UploadFails
    \/ \E t \in 1..MaxUploads : TimerFires(t)
    \/ UnmountPage

SpecFlash == FlashInit /\ [][FlashNext]_vars

\* C30: at most one hide-timer is pending; while the page is mounted the
\* flash is shown exactly while a timer is pending; and no timer is pending
\* once the page is unmounted
C30_FlashFollowsTimer ==
    /\ Cardinality(res.timers) <= 1
    /\ res.mounted => (res.syncedFlash <=> res.timers # {})
    /\ ~res.mounted => res.timers = {}


-----------------------------------------------------------------------------
(* The failure of a mutation whose page is still on display.               *)

====
